---- MODULE Spec2Model ----
(***************************************************************************)
(* eztrans-rs: the named-pipe proxy server (src/server.rs, src/bin/proxy.rs),*)
(* its wire protocol (src/ipc_protocol.rs) and the escape codec of the      *)
(* engine adapter (src/lib.rs: hangul_encode / hangul_decode).              *)
(*                                                                         *)
(* Text is a sequence of Unicode scalar values (natural numbers); a wire   *)
(* buffer is a sequence of units of the record's fixed capacity.           *)
(***************************************************************************)
EXTENDS Integers, Sequences, FiniteSets, TLC

(***************************************************************************)
(* Bounds of the model                                                     *)
(***************************************************************************)
\* number of request headers one run of the serve loop may read
MaxRequests == 4
\* longest text the codec specification builds
MaxLen == 4
\* the command values 0..MaxCommandValue are decoded, and some large ones
MaxCommandValue == 63
\* the text buffers of the translate records, scaled: the model's buffers
\* hold BufCap units where the records hold TextCapacity (4096)
BufCap == 6

(***************************************************************************)
(* Characters                                                              *)
(***************************************************************************)
NUL == 0
PLUS == 43
AT == 64
LOWER_X == 120
UPPER_X == 88

\* the symbols listed in EzTransEngine::new, as code points
special_chars ==
  {
    161, 188, 189, 190, 191, 273, 294, 295, 305, 306, 307, 312,
    319, 320, 321, 322, 329, 330, 331, 338, 339, 358, 359, 711,
    720, 728, 729, 730, 731, 733, 937, 8319, 8321, 8322, 8323, 8324,
    8364, 8457, 8467, 8482, 8531, 8532, 8539, 8540, 8541, 8542, 8560, 8561,
    8562, 8563, 8564, 8565, 8566, 8567, 8568, 8569, 8596, 8597, 8598, 8599,
    8600, 8601, 8719, 8764, 8857, 9312, 9313, 9314, 9315, 9316, 9317, 9318,
    9319, 9320, 9321, 9322, 9323, 9324, 9325, 9326, 9332, 9333, 9334, 9335,
    9336, 9337, 9338, 9339, 9340, 9341, 9342, 9343, 9344, 9345, 9346, 9372,
    9373, 9374, 9375, 9376, 9377, 9378, 9379, 9380, 9381, 9382, 9383, 9384,
    9385, 9386, 9387, 9388, 9389, 9390, 9391, 9392, 9393, 9394, 9395, 9396,
    9397, 9424, 9425, 9426, 9427, 9428, 9429, 9430, 9431, 9432, 9433, 9434,
    9435, 9436, 9437, 9438, 9439, 9440, 9441, 9442, 9443, 9444, 9445, 9446,
    9447, 9448, 9449, 9485, 9486, 9489, 9490, 9493, 9494, 9497, 9498, 9502,
    9503, 9505, 9506, 9510, 9511, 9514, 9517, 9518, 9521, 9522, 9525, 9526,
    9529, 9530, 9533, 9534, 9536, 9537, 9539, 9540, 9541, 9542, 9543, 9544,
    9545, 9546, 9618, 9635, 9636, 9637, 9638, 9639, 9640, 9641, 9654, 9655,
    9664, 9665, 9672, 9680, 9681, 9742, 9743, 9756, 9758, 9824, 9825, 9827,
    9828, 9829, 9831, 9832, 9833, 9836, 12800, 12801, 12802, 12803, 12804, 12805,
    12806, 12807, 12808, 12809, 12810, 12811, 12812, 12813, 12814, 12815, 12816, 12817,
    12818, 12819, 12820, 12821, 12822, 12823, 12824, 12825, 12826, 12827, 12828, 12896,
    12897, 12898, 12899, 12900, 12901, 12902, 12903, 12904, 12905, 12906, 12907, 12908,
    12909, 12910, 12911, 12912, 12913, 12914, 12915, 12916, 12917, 12918, 12919, 12920,
    12921, 12922, 12923, 12927, 13184, 13185, 13186, 13187, 13188, 13192, 13193, 13194,
    13195, 13196, 13197, 13200, 13201, 13202, 13203, 13204, 13205, 13206, 13207, 13208,
    13209, 13210, 13211, 13215, 13216, 13218, 13219, 13220, 13221, 13222, 13223, 13224,
    13225, 13226, 13227, 13228, 13229, 13230, 13231, 13232, 13233, 13234, 13235, 13236,
    13237, 13238, 13239, 13240, 13242, 13243, 13244, 13245, 13246, 13247, 13248, 13249,
    13250, 13251, 13253, 13254, 13255, 13256, 13257, 13258, 13263, 13264, 13267, 13270,
    13272, 13275, 13276, 13277, 65282, 65287, 65510
  }

(***************************************************************************)
(* Escape codec (src/lib.rs)                                               *)
(***************************************************************************)
Min(a, b) == IF a <= b THEN a ELSE b

\* EzTransEngine::is_hangul_range
is_hangul_range(code) ==
    \/ (code >= 4352 /\ code <= 4607)       \* U+1100..U+11FF Hangul Jamo
    \/ (code >= 12592 /\ code <= 12687)     \* U+3130..U+318F Compatibility Jamo
    \/ (code >= 43360 /\ code <= 43391)     \* U+A960..U+A97F Jamo Extended-A
    \/ (code >= 44032 /\ code <= 55203)     \* U+AC00..U+D7A3 Syllables
    \/ (code >= 55216 /\ code <= 55295)     \* U+D7B0..U+D7FF Jamo Extended-B

\* the first branch of hangul_encode: the '+x' class
IsRangeEscaped(c) == c = AT \/ c = NUL \/ is_hangul_range(c)

\* the closure of default_translate: some character needs the codec
NeedsEncodingChar(c) ==
    c = AT \/ c = NUL \/ is_hangul_range(c) \/ c \in special_chars

\* one uppercase hexadecimal digit, as a character
HexDigitUpper(d) == IF d < 10 THEN 48 + d ELSE 55 + d

RECURSIVE HexUpper(_)
\* the digits of n in base 16, most significant first, no padding
HexUpper(n) ==
    IF n < 16 THEN <<HexDigitUpper(n)>>
    ELSE HexUpper(n \div 16) \o <<HexDigitUpper(n % 16)>>

\* a formatting that omits the zero padding, as "{:X}" would
Format04X_Unpadded(n) == HexUpper(n)

\* format!("{:04X}", n): at least four digits, zero padded on the left
Format04X(n) ==
    LET h == HexUpper(n)
    IN  IF Len(h) >= 4 THEN h ELSE [i \in 1..(4 - Len(h)) |-> 48] \o h

\* an encoder that also escapes the marker character '+'
EncodeChar_EscapingPlus(c) ==
    IF IsRangeEscaped(c) \/ c = PLUS THEN <<PLUS, LOWER_X>> \o Format04X(c)
    ELSE IF c \in special_chars THEN <<PLUS, UPPER_X>> \o Format04X(c)
    ELSE <<c>>

\* an encoder that writes the marker '+x' for both classes
EncodeChar_OneMarker(c) ==
    IF IsRangeEscaped(c) \/ c \in special_chars
    THEN <<PLUS, LOWER_X>> \o Format04X(c)
    ELSE <<c>>

\* what hangul_encode writes for one character
EncodeChar(c) ==
    IF IsRangeEscaped(c) THEN <<PLUS, LOWER_X>> \o Format04X(c)
    ELSE IF c \in special_chars THEN <<PLUS, UPPER_X>> \o Format04X(c)
    ELSE <<c>>

RECURSIVE hangul_encode(_)
\* EzTransEngine::hangul_encode: the characters in order, each mapped alone
hangul_encode(input) ==
    IF input = <<>> THEN <<>>
    ELSE EncodeChar(Head(input)) \o hangul_encode(Tail(input))

\* char::is_ascii_hexdigit
is_ascii_hexdigit(c) ==
    \/ (c >= 48 /\ c <= 57)
    \/ (c >= 65 /\ c <= 70)
    \/ (c >= 97 /\ c <= 102)

\* the value of one hexadecimal digit (upper or lower case)
HexValue(c) ==
    IF c <= 57 THEN c - 48 ELSE IF c <= 70 THEN c - 55 ELSE c - 87

\* u32::from_str_radix(hex, 16) of four hexadecimal digits
from_str_radix(hex) ==
    ((HexValue(hex[1]) * 16 + HexValue(hex[2])) * 16 + HexValue(hex[3])) * 16
        + HexValue(hex[4])

\* std::char::from_u32 succeeds: not a surrogate, not above U+10FFFF
IsScalarValue(code) ==
    /\ code <= 1114111
    /\ ~(code >= 55296 /\ code <= 57343)

\* a test that takes decimal digits only (is_ascii_digit)
ValidEscape_DecimalOnly(hex) ==
    /\ Len(hex) = 4
    /\ \A k \in 1..4 : hex[k] >= 48 /\ hex[k] <= 57
    /\ IsScalarValue(from_str_radix(hex))

\* the four-character window after a marker names a character
ValidEscape(hex) ==
    /\ Len(hex) = 4
    /\ \A k \in 1..4 : is_ascii_hexdigit(hex[k])
    /\ IsScalarValue(from_str_radix(hex))

RECURSIVE DecodeFrom_Dropping(_, _)
\* a decoder that, when the escape is not valid, writes the marker back but
\* not the characters it took after it
DecodeFrom_Dropping(input, i) ==
    IF i > Len(input) THEN <<>>
    ELSE IF input[i] # PLUS
    THEN <<input[i]>> \o DecodeFrom_Dropping(input, i + 1)
    ELSE IF i + 1 <= Len(input) /\ input[i + 1] \in {LOWER_X, UPPER_X}
    THEN LET hex == SubSeq(input, i + 2, Min(i + 5, Len(input)))
             rest == i + 2 + Len(hex)
         IN  IF ValidEscape(hex)
             THEN <<from_str_radix(hex)>> \o DecodeFrom_Dropping(input, rest)
             ELSE <<PLUS, input[i + 1]>> \o DecodeFrom_Dropping(input, rest)
    ELSE <<PLUS>> \o DecodeFrom_Dropping(input, i + 1)

RECURSIVE DecodeFrom(_, _)
\* the loop of hangul_decode with the iterator standing before input[i]
DecodeFrom(input, i) ==
    IF i > Len(input) THEN <<>>
    ELSE IF input[i] # PLUS THEN <<input[i]>> \o DecodeFrom(input, i + 1)
    ELSE IF i + 1 <= Len(input) /\ input[i + 1] \in {LOWER_X, UPPER_X}
    THEN LET hex == SubSeq(input, i + 2, Min(i + 5, Len(input))) \* take(4)
             rest == i + 2 + Len(hex)
         IN  IF ValidEscape(hex)
             THEN <<from_str_radix(hex)>> \o DecodeFrom(input, rest)
             ELSE <<PLUS, input[i + 1]>> \o hex \o DecodeFrom(input, rest)
    ELSE <<PLUS>> \o DecodeFrom(input, i + 1)

\* EzTransEngine::hangul_decode
hangul_decode(input) == DecodeFrom(input, 1)


(***************************************************************************)
(* Wire protocol (src/ipc_protocol.rs)                                     *)
(***************************************************************************)
\* enum Command: the variants
Initialize == "Initialize"
Terminate == "Terminate"
TranslateMMNT == "TranslateMMNT"
TranslateMMNTW == "TranslateMMNTW"
ReloadUserDict == "ReloadUserDict"
SetProperty == "SetProperty"
Shutdown == "Shutdown"
Ping == "Ping"

\* no command decoded
NoCommand == "none"

\* `command as u32`: the discriminants of the enum declaration
Command_as_u32(c) ==
    CASE c = Initialize -> 1
      [] c = Terminate -> 2
      [] c = TranslateMMNT -> 3
      [] c = TranslateMMNTW -> 4
      [] c = ReloadUserDict -> 5
      [] c = SetProperty -> 6
      [] c = Shutdown -> 7
      [] c = Ping -> 8

InvalidCommand(value) == [ok |-> FALSE, error |-> "InvalidCommand", value |-> value]
Ok(c) == [ok |-> TRUE, command |-> c]

\* a decoding whose last arm takes every value from 8 on
Command_try_from_Lenient(value) ==
    CASE value = 1 -> Ok(Initialize)
      [] value = 2 -> Ok(Terminate)
      [] value = 3 -> Ok(TranslateMMNT)
      [] value = 4 -> Ok(TranslateMMNTW)
      [] value = 5 -> Ok(ReloadUserDict)
      [] value = 6 -> Ok(SetProperty)
      [] value = 7 -> Ok(Shutdown)
      [] value >= 8 -> Ok(Ping)
      [] OTHER -> InvalidCommand(value)

\* a decoding that counts the commands from 0
Command_try_from_ZeroBased(value) ==
    CASE value = 0 -> Ok(Initialize)
      [] value = 1 -> Ok(Terminate)
      [] value = 2 -> Ok(TranslateMMNT)
      [] value = 3 -> Ok(TranslateMMNTW)
      [] value = 4 -> Ok(ReloadUserDict)
      [] value = 5 -> Ok(SetProperty)
      [] value = 6 -> Ok(Shutdown)
      [] value = 7 -> Ok(Ping)
      [] OTHER -> InvalidCommand(value)

\* impl TryFrom<u32> for Command: the arms of the match
Command_try_from(value) ==
    CASE value = 1 -> Ok(Initialize)
      [] value = 2 -> Ok(Terminate)
      [] value = 3 -> Ok(TranslateMMNT)
      [] value = 4 -> Ok(TranslateMMNTW)
      [] value = 5 -> Ok(ReloadUserDict)
      [] value = 6 -> Ok(SetProperty)
      [] value = 7 -> Ok(Shutdown)
      [] value = 8 -> Ok(Ping)
      [] OTHER -> InvalidCommand(value)

\* the capacity, in units, of the text buffers of the translate records
TextCapacity == 4096
\* the capacity, in UTF-16 units, of InitializeRequest.engine_path
PathCap == 260

\* the fields of each record, in declaration order, as <<size, alignment>>
Fields(T) ==
    CASE T = "MessageHeader"          -> << <<4, 4>>, <<4, 4>>, <<8, 8>> >>
      [] T = "InitializeRequest"      -> << <<2 * PathCap, 2>> >>
      [] T = "InitializeResponse"     -> << <<4, 4>>, <<1, 1>> >>
      [] T = "TranslateMMNTRequest"   -> << <<4, 4>>, <<TextCapacity, 1>> >>
      [] T = "TranslateMMNTResponse"  -> << <<4, 4>>, <<4, 4>>, <<TextCapacity, 1>> >>
      [] T = "TranslateMMNTWRequest"  -> << <<4, 4>>, <<2 * TextCapacity, 2>> >>
      [] T = "TranslateMMNTWResponse" -> << <<4, 4>>, <<4, 4>>, <<2 * TextCapacity, 2>> >>
      [] T = "GenericResponse"        -> << <<4, 4>> >>
      [] T = "SetPropertyRequest"     -> << <<4, 4>>, <<4, 4>> >>

RoundUp(n, a) == ((n + a - 1) \div a) * a

RECURSIVE LayoutEnd(_, _)
\* the offset after the first k fields under repr(C, packed(8))
LayoutEnd(fs, k) ==
    IF k = 0 THEN 0
    ELSE RoundUp(LayoutEnd(fs, k - 1), Min(fs[k][2], 8)) + fs[k][1]

RECURSIVE MaxAlign(_, _)
MaxAlign(fs, k) ==
    IF k = 0 THEN 1
    ELSE LET a == Min(fs[k][2], 8)
             m == MaxAlign(fs, k - 1)
         IN  IF a > m THEN a ELSE m

\* a layout without the padding that follows the last field
size_of_Unpadded(T) == LayoutEnd(Fields(T), Len(Fields(T)))

\* std::mem::size_of::<T>()
size_of(T) ==
    LET fs == Fields(T)
    IN  RoundUp(LayoutEnd(fs, Len(fs)), MaxAlign(fs, Len(fs)))

\* what one ReadFile / WriteFile call can report: a failure, or a byte count
IoOutcomes(T) ==
    {[ok |-> FALSE, bytes |-> 0]}
        \cup {[ok |-> TRUE, bytes |-> n] : n \in {size_of(T), size_of(T) - 1}}

\* a read that does not compare the byte count with the size of the record
read_message_AnyCount(T, io) == IF ~io.ok THEN "Io" ELSE "Ok"

\* TransProxyServer::read_message: "Ok" or the error it returns
read_message(T, io) ==
    IF ~io.ok THEN "Io"
    ELSE IF io.bytes # size_of(T) THEN "IncompleteRead"
    ELSE "Ok"

\* TransProxyServer::write_message: "Ok" or the error it returns
write_message(T, io) ==
    IF ~io.ok THEN "Io"
    ELSE IF io.bytes # size_of(T) THEN "IncompleteWrite"
    ELSE "Ok"


(***************************************************************************)
(* Text conversions used by the translate paths                            *)
(***************************************************************************)
REPLACEMENT == 65533

IsHighSurrogate(u) == u >= 55296 /\ u <= 56319
IsLowSurrogate(u) == u >= 56320 /\ u <= 57343

\* char::encode_utf16
EncodeUtf16Char(c) ==
    IF c < 65536 THEN <<c>>
    ELSE <<55296 + ((c - 65536) \div 1024), 56320 + ((c - 65536) % 1024)>>

RECURSIVE encode_utf16(_)
\* str::encode_utf16
encode_utf16(str) ==
    IF str = <<>> THEN <<>>
    ELSE EncodeUtf16Char(Head(str)) \o encode_utf16(Tail(str))

RECURSIVE Utf16From(_, _, _)
\* decode UTF-16 units from index i; an unpaired surrogate gives `bad`
Utf16From(units, i, bad) ==
    IF i > Len(units) THEN <<>>
    ELSE IF IsHighSurrogate(units[i]) /\ i < Len(units)
            /\ IsLowSurrogate(units[i + 1])
    THEN <<65536 + (units[i] - 55296) * 1024 + (units[i + 1] - 56320)>>
             \o Utf16From(units, i + 2, bad)
    ELSE IF IsHighSurrogate(units[i]) \/ IsLowSurrogate(units[i])
    THEN <<bad>> \o Utf16From(units, i + 1, bad)
    ELSE <<units[i]>> \o Utf16From(units, i + 1, bad)

\* String::from_utf16_lossy
from_utf16_lossy(units) == Utf16From(units, 1, REPLACEMENT)

\* String::from_utf16: fails on an unpaired surrogate
from_utf16(units) ==
    LET str == Utf16From(units, 1, -1)
    IN  IF \E k \in 1..Len(str) : str[k] = -1
        THEN [ok |-> FALSE]
        ELSE [ok |-> TRUE, str |-> str]

\* the characters outside ASCII the model's texts use
HIRAGANA_A == 12354
HANGUL_GA == 44032

\* the rows of the Shift_JIS and EUC-KR tables for those characters: HANGUL
\* GA has no Shift_JIS code, HIRAGANA A has codes in both
SjisTable == { [c |-> HIRAGANA_A, b |-> <<130, 160>>] }
EucKrTable == { [c |-> HANGUL_GA, b |-> <<176, 161>>],
                [c |-> HIRAGANA_A, b |-> <<170, 162>>] }

RECURSIVE DecimalDigits(_)
DecimalDigits(n) ==
    IF n < 10 THEN <<48 + n>> ELSE DecimalDigits(n \div 10) \o <<48 + (n % 10)>>

\* the numeric character reference an encoder writes for an unmappable char
Ncr(c) == <<38, 35>> \o DecimalDigits(c) \o <<59>>

RECURSIVE LegacyEncode(_, _)
\* Encoding::encode with the rows of `table`: ASCII as it is, a character of
\* the table as its two bytes, any other character as a reference
LegacyEncode(str, table) ==
    IF str = <<>> THEN <<>>
    ELSE LET c == Head(str)
             b == IF c < 128 THEN <<c>>
                  ELSE IF \E r \in table : r.c = c
                  THEN (CHOOSE r \in table : r.c = c).b
                  ELSE Ncr(c)
         IN  b \o LegacyEncode(Tail(str), table)

RECURSIVE LegacyDecode(_, _, _)
\* Encoding::decode from index i: a malformed byte gives U+FFFD
LegacyDecode(bytes, i, table) ==
    IF i > Len(bytes) THEN <<>>
    ELSE IF bytes[i] < 128
    THEN <<bytes[i]>> \o LegacyDecode(bytes, i + 1, table)
    ELSE IF i < Len(bytes) /\ \E r \in table : r.b = <<bytes[i], bytes[i + 1]>>
    THEN <<(CHOOSE r \in table : r.b = <<bytes[i], bytes[i + 1]>>).c>>
             \o LegacyDecode(bytes, i + 2, table)
    ELSE <<REPLACEMENT>> \o LegacyDecode(bytes, i + 1, table)

\* the malformed-input flag of Encoding::decode
LegacyHadErrors(bytes, table) ==
    LET str == LegacyDecode(bytes, 1, table)
    IN  \E k \in 1..Len(str) : str[k] = REPLACEMENT

SHIFT_JIS_decode(bytes) == LegacyDecode(bytes, 1, SjisTable)
SHIFT_JIS_encode(str) == LegacyEncode(str, SjisTable)
EUC_KR_decode(bytes) == LegacyDecode(bytes, 1, EucKrTable)
EUC_KR_encode(str) == LegacyEncode(str, EucKrTable)
EUC_KR_had_errors(bytes) == LegacyHadErrors(bytes, EucKrTable)

\* a buffer of BufCap zero units
ZeroBuffer == [i \in 1..BufCap |-> 0]

\* iter().position(|&x| x == 0).unwrap_or(4096)
text_len(buf) ==
    IF \E k \in 1..Len(buf) : buf[k] = 0
    THEN (CHOOSE k \in 1..Len(buf) :
              buf[k] = 0 /\ \A j \in 1..(k - 1) : buf[j] # 0) - 1
    ELSE BufCap

\* a request buffer holding the units of t, zero filled to its capacity
Buffer(t) == [i \in 1..BufCap |-> IF i <= Len(t) THEN t[i] ELSE 0]

\* n units of the letter 'a'
Filler(n) == [i \in 1..n |-> 97]

(***************************************************************************)
(* Engine adapter (src/lib.rs): the native library and its function table  *)
(***************************************************************************)
\* the exports the proxy server depends on
Exports ==
    {"J2K_Initialize", "J2K_InitializeEx", "J2K_Terminate", "J2K_FreeMem",
     "J2K_TranslateMMNT", "J2K_TranslateMMNTW", "J2K_ReloadUserDict",
     "J2K_SetProperty"}

\* the libraries a path can name: an engine with the EHND extension, a plain
\* engine, an extended engine with no optional function, and two libraries
\* that fail the checks of load_functions
Libraries ==
    { Exports,
      Exports \ {"J2K_InitializeEx", "J2K_TranslateMMNTW"},
      {"J2K_InitializeEx", "J2K_Terminate"},
      Exports \ {"J2K_Terminate"},
      Exports \ {"J2K_Initialize", "J2K_InitializeEx"} }

\* what LoadLibraryA can give for the path of a request
LoadOutcomes ==
    {[loaded |-> FALSE]} \cup {[loaded |-> TRUE, exports |-> l] : l \in Libraries}

\* the return codes a native function is drawn from
NativeRets == {0, 1}

NoEngine == [present |-> FALSE]
Adapter(fns) == [present |-> TRUE, fns |-> fns]

Call(fn, ret) == [fn |-> fn, ret |-> ret]

\* EzTransEngine::load_functions: the two required-function checks
load_functions(fns) ==
    IF "J2K_Initialize" \notin fns /\ "J2K_InitializeEx" \notin fns
    THEN "FunctionLoadError"
    ELSE IF "J2K_Terminate" \notin fns THEN "FunctionLoadError"
    ELSE "Ok"

\* impl Drop for EzTransEngine: the native calls of dropping an adapter
EngineDrop(e, ret) ==
    (IF "J2K_Terminate" \in e.fns THEN <<Call("J2K_Terminate", ret)>> ELSE <<>>)
        \o <<Call("FreeLibrary", 1)>>

\* EzTransEngine::new: the adapter, or the error with the calls of the
\* adapter dropped on the way out
EzTransEngine_new(load, drop_ret) ==
    IF ~load.loaded
    THEN [ok |-> FALSE, calls |-> <<Call("LoadLibraryA", 0)>>]
    ELSE IF load_functions(load.exports) # "Ok"
    THEN [ok |-> FALSE,
          calls |-> <<Call("LoadLibraryA", 1)>>
                        \o EngineDrop(Adapter(load.exports), drop_ret)]
    ELSE [ok |-> TRUE, engine |-> Adapter(load.exports),
          calls |-> <<Call("LoadLibraryA", 1)>>]

\* EzTransEngine::initialize_ex
initialize_ex(e, ret) ==
    IF "J2K_InitializeEx" \notin e.fns
    THEN [ok |-> FALSE, calls |-> <<>>]
    ELSE [ok |-> ret = 1, calls |-> <<Call("J2K_InitializeEx", ret)>>]

\* EzTransEngine::terminate
terminate(e, ret) ==
    IF "J2K_Terminate" \notin e.fns
    THEN [ok |-> FALSE, calls |-> <<>>]
    ELSE [ok |-> ret = 0, calls |-> <<Call("J2K_Terminate", ret)>>]

\* a reload_user_dict that calls through the pointer without testing it
reload_user_dict_Unchecked(e, ret) ==
    [ok |-> ret = 0, calls |-> <<Call("J2K_ReloadUserDict", ret)>>]

\* EzTransEngine::reload_user_dict
reload_user_dict(e, ret) ==
    IF "J2K_ReloadUserDict" \notin e.fns
    THEN [ok |-> FALSE, calls |-> <<>>]
    ELSE [ok |-> ret = 0, calls |-> <<Call("J2K_ReloadUserDict", ret)>>]

\* a set_property that calls through the pointer without testing it
set_property_Unchecked(e, ret) ==
    [ok |-> ret = 0, calls |-> <<Call("J2K_SetProperty", ret)>>]

\* EzTransEngine::set_property
set_property(e, ret) ==
    IF "J2K_SetProperty" \notin e.fns
    THEN [ok |-> FALSE, calls |-> <<>>]
    ELSE [ok |-> ret = 0, calls |-> <<Call("J2K_SetProperty", ret)>>]

\* the units a native function reads through a pointer: up to the first zero
CString(units) ==
    IF \E k \in 1..Len(units) : units[k] = 0
    THEN SubSeq(units, 1,
                (CHOOSE k \in 1..Len(units) :
                     units[k] = 0 /\ \A j \in 1..(k - 1) : units[j] # 0) - 1)
    ELSE units

Null == [null |-> TRUE]
Returned(units) == [null |-> FALSE, units |-> units]

\* a native translate call: the text it read, whether it returned a pointer
\* (ret 1) or null (ret 0), and the text found at the pointer
CallWith(fn, arg, ret, out) == [fn |-> fn, ret |-> ret, arg |-> arg, out |-> out]

\* the free_mem call made after a native result has been copied
FreeMem(e) ==
    IF "J2K_FreeMem" \in e.fns THEN <<Call("J2K_FreeMem", 0)>> ELSE <<>>

\* what the native wide translate function can return for the text it reads:
\* null, the text itself, a Hangul syllable, an unpaired surrogate, or a text
\* of n letters
NativeChoicesW ==
    {[kind |-> "null"], [kind |-> "echo"],
     [kind |-> "text", units |-> <<HANGUL_GA>>],
     [kind |-> "text", units |-> <<55296>>]}
        \cup {[kind |-> "text", units |-> Filler(n)] :
                  n \in (BufCap - 1)..(BufCap + 1)}

\* the same for the legacy function, in EUC-KR bytes: null, the bytes read,
\* a Hangul syllable, a malformed byte, or a text of n letters
NativeChoicesA ==
    {[kind |-> "null"], [kind |-> "echo"],
     [kind |-> "text", units |-> <<176, 161>>],
     [kind |-> "text", units |-> <<255>>]}
        \cup {[kind |-> "text", units |-> Filler(n)] :
                  n \in (BufCap - 1)..(BufCap + 1)}

\* the native translate function: opaque, so its result is a choice
NativeTranslate(choice, seen) ==
    IF choice.kind = "null" THEN Null
    ELSE IF choice.kind = "echo" THEN Returned(seen)
    ELSE Returned(choice.units)

\* the bytes that can follow an unterminated input in memory
Beyond == {<<>>, <<33>>}

\* EzTransEngine::translate_mmntw on the zero-terminated UTF-16 input
translate_mmntw(e, input, choice) ==
    LET input_wide == encode_utf16(input) \o <<0>>
        seen == CString(input_wide)
        out == NativeTranslate(choice, seen)
    IN  IF "J2K_TranslateMMNTW" \notin e.fns
        THEN [ok |-> FALSE, calls |-> <<>>]
        ELSE IF out.null
        THEN [ok |-> FALSE,
              calls |-> <<CallWith("J2K_TranslateMMNTW", seen, 0, <<>>)>>]
        ELSE LET units == CString(out.units)
                 r == from_utf16(units)
             IN  IF ~r.ok
                 THEN [ok |-> FALSE,
                       calls |-> <<CallWith("J2K_TranslateMMNTW", seen, 1,
                                            units)>>]
                 ELSE [ok |-> TRUE, str |-> r.str,
                       calls |-> <<CallWith("J2K_TranslateMMNTW", seen, 1,
                                            units)>>
                                     \o FreeMem(e)]

\* EzTransEngine::translate_mmnt: the Shift_JIS bytes are handed over with no
\* terminator, so the native function reads on into `beyond`, the bytes that
\* happen to follow them in memory
translate_mmnt(e, input, choice, beyond) ==
    LET input_sjis == SHIFT_JIS_encode(input)
        seen == CString(input_sjis \o beyond)
        out == NativeTranslate(choice, seen)
    IN  IF "J2K_TranslateMMNT" \notin e.fns
        THEN [ok |-> FALSE, calls |-> <<>>]
        ELSE IF out.null
        THEN [ok |-> FALSE,
              calls |-> <<CallWith("J2K_TranslateMMNT", seen, 0, <<>>)>>]
        ELSE LET bytes == CString(out.units)
             IN  IF EUC_KR_had_errors(bytes)
                 THEN [ok |-> FALSE,
                       calls |-> <<CallWith("J2K_TranslateMMNT", seen, 1,
                                            bytes)>>
                                     \o FreeMem(e)]
                 ELSE [ok |-> TRUE, str |-> EUC_KR_decode(bytes),
                       calls |-> <<CallWith("J2K_TranslateMMNT", seen, 1,
                                            bytes)>>
                                     \o FreeMem(e)]

\* the closure of default_translate over the whole input
needs_encoding(input) == \E k \in 1..Len(input) : NeedsEncodingChar(input[k])

\* a default_translate that returns the engine's text as it came
default_translate_NoDecode(e, input, choice, beyond) ==
    LET needs == needs_encoding(input)
        encoded == IF needs THEN hangul_encode(input) ELSE input
    IN  IF "J2K_InitializeEx" \in e.fns
        THEN translate_mmntw(e, encoded, choice)
        ELSE translate_mmnt(e, encoded, choice, beyond)

\* a default_translate that takes the extended function whenever it is loaded
default_translate_ByTranslateFn(e, input, choice, beyond) ==
    LET needs == needs_encoding(input)
        encoded == IF needs THEN hangul_encode(input) ELSE input
        translated == IF "J2K_TranslateMMNTW" \in e.fns
                      THEN translate_mmntw(e, encoded, choice)
                      ELSE translate_mmnt(e, encoded, choice, beyond)
    IN  IF ~translated.ok THEN translated
        ELSE [ok |-> TRUE,
              str |-> IF needs THEN hangul_decode(translated.str)
                      ELSE translated.str,
              calls |-> translated.calls]

\* EzTransEngine::default_translate
default_translate(e, input, choice, beyond) ==
    LET needs == needs_encoding(input)
        encoded == IF needs THEN hangul_encode(input) ELSE input
        translated == IF "J2K_InitializeEx" \in e.fns
                      THEN translate_mmntw(e, encoded, choice)
                      ELSE translate_mmnt(e, encoded, choice, beyond)
    IN  IF ~translated.ok THEN translated
        ELSE [ok |-> TRUE,
              str |-> IF needs THEN hangul_decode(translated.str)
                      ELSE translated.str,
              calls |-> translated.calls]

RECURSIVE CountCalls(_, _)
\* how many calls of fn a call sequence holds
CountCalls(cs, fn) ==
    IF cs = <<>> THEN 0
    ELSE (IF Head(cs).fn = fn THEN 1 ELSE 0) + CountCalls(Tail(cs), fn)

RECURSIVE AliveAfter(_, _)
\* the number of loaded library handles after a call sequence
AliveAfter(n, cs) ==
    IF cs = <<>> THEN n
    ELSE LET c == Head(cs)
             m == IF c.fn = "LoadLibraryA" /\ c.ret = 1 THEN n + 1
                  ELSE IF c.fn = "FreeLibrary" THEN n - 1
                  ELSE n
         IN  AliveAfter(m, Tail(cs))

RECURSIVE NativeAfter(_, _)
\* the state of the process-global native engine after a call sequence: set
\* by an accepted J2K_InitializeEx, cleared by a J2K_Terminate that reports 0
NativeAfter(b, cs) ==
    IF cs = <<>> THEN b
    ELSE LET c == Head(cs)
             n == IF c.fn = "J2K_InitializeEx" /\ c.ret = 1 THEN TRUE
                  ELSE IF c.fn = "J2K_Terminate" /\ c.ret = 0 THEN FALSE
                  ELSE b
         IN  NativeAfter(n, Tail(cs))


(***************************************************************************)
(* State                                                                   *)
(***************************************************************************)
VARIABLES
    pc,              \* where main (src/bin/proxy.rs) and run stand
    pipe_handle,     \* TransProxyServer.pipe_handle
    engine,          \* TransProxyServer.engine
    initialized,     \* TransProxyServer.initialized
    running,         \* TransProxyServer.running
    header,          \* the header process_request read last
    command,         \* the command decoded from the header being served
    last_read,       \* what the last ReadFile reported, and for which record
    last_write,      \* what the last WriteFile reported, and for which record
    pipe,            \* the pipe as the calls made on it have left it
    req_no,          \* the number of request headers read so far
    written,         \* the request numbers of the responses written, in order
    response,        \* the last response record written
    error,           \* the last error start or process_request returned
    exit_code,       \* the status given to std::process::exit
    calls,           \* the native calls of the handler that ran last
    adapters,        \* the number of library handles loaded and not freed
    native_initialized, \* the process-global state of the native engine
    history,         \* the command and status of the last two responses written
    text,            \* codec specification: the input text
    result,          \* codec specification: what the codec made of it
    shm              \* main of src/bin/shared_memory.rs: where it stands,
                     \* its engine, and what its last step received and sent

server_vars ==
    <<pc, pipe_handle, engine, initialized, running, header, command,
      last_read, last_write, pipe, req_no, written, response, error,
      exit_code, calls, adapters, native_initialized, history>>
codec_vars == <<text, result, shm>>
vars == <<server_vars, codec_vars>>

NoResponse == [type |-> "none"]
NoIo == [T |-> "none", ok |-> TRUE, bytes |-> 0]
Io(T, io) == [T |-> T, ok |-> io.ok, bytes |-> io.bytes]
\* the header as process_request initialises it
ZeroHeader == [command |-> 0, payload_size |-> 0, request_id |-> 0]
NoResult == [op |-> "none"]

\* main of the shared-memory server before its first statement
ShmNew ==
    [pc |-> "start", ez_trans |-> NoEngine, n |-> 0, received |-> "none",
     sends |-> 0, sent |-> "none", send_ok |-> TRUE, calls |-> <<>>,
     ret |-> "none"]

\* TransProxyServer::new, with main about to call start
ServerInit ==
    /\ pc = "new"
    /\ pipe_handle = "INVALID_HANDLE_VALUE"
    /\ engine = NoEngine
    /\ initialized = FALSE
    /\ running = TRUE
    /\ header = ZeroHeader
    /\ command = NoCommand
    /\ last_read = NoIo
    /\ last_write = NoIo
    /\ pipe = "none"
    /\ req_no = 0
    /\ written = <<>>
    /\ response = NoResponse
    /\ error = "none"
    /\ exit_code = -1
    /\ calls = <<>>
    /\ adapters = 0
    /\ native_initialized = FALSE
    /\ shm = ShmNew
    /\ history = <<>>

CodecInit ==
    /\ text = <<>>
    /\ result = NoResult

Init == ServerInit /\ CodecInit

(***************************************************************************)
(* Server lifecycle (src/bin/proxy.rs, TransProxyServer::start / run)      *)
(***************************************************************************)
\* a main that runs the loop whatever start returned
Start_IgnoringResult ==
    /\ pc = "new"
    /\ \E created \in BOOLEAN, connected \in BOOLEAN :
         /\ pipe_handle' = (IF created THEN "PIPE" ELSE "INVALID_HANDLE_VALUE")
         /\ pipe' = (IF ~created THEN pipe
                     ELSE IF connected THEN "connected" ELSE "created")
         /\ error' = (IF ~created THEN "PipeError"
                      ELSE IF connected THEN error ELSE "Io")
         /\ pc' = "serving"
    /\ UNCHANGED <<engine, initialized, running, header, command, last_read,
                   last_write, req_no, written, response, exit_code, calls,
                   adapters, native_initialized, history>>
    /\ UNCHANGED codec_vars

\* TransProxyServer::start as main calls it
Start ==
    /\ pc = "new"
    /\ \E created \in BOOLEAN, connected \in BOOLEAN :
         IF ~created
         THEN /\ pipe_handle' = "INVALID_HANDLE_VALUE"
              /\ pipe' = pipe
              /\ error' = "PipeError"
              /\ pc' = "failed"
         ELSE /\ pipe_handle' = "PIPE"
              /\ IF connected
                 THEN pipe' = "connected" /\ error' = error /\ pc' = "serving"
                 ELSE pipe' = "created" /\ error' = "Io" /\ pc' = "failed"
    /\ UNCHANGED <<engine, initialized, running, header, command, last_read,
                   last_write, req_no, written, response, exit_code, calls,
                   adapters, native_initialized, history>>
    /\ UNCHANGED codec_vars

\* what a ReadFile / WriteFile call on the pipe can report: only a failure
\* once the client has closed its end
Channel(T) ==
    IF pipe = "broken" THEN {[ok |-> FALSE, bytes |-> 0]} ELSE IoOutcomes(T)

\* a loop that does not test running
CanServe_IgnoringRunning == pc = "serving"

\* a loop that reads the next header while a request is being handled
CanServe_WhileHandling == pc \in {"serving", "handling"} /\ running

\* the condition of `while self.running` in run, and the bound of the model
CanServe == pc = "serving" /\ running

\* a dispatch that takes no header whose payload_size is zero
process_request_command_CheckingSize(h) ==
    IF h.payload_size = 0 THEN InvalidCommand(h.command)
    ELSE Command_try_from(h.command)

\* the command process_request takes from the header it has read:
\* `Command::try_from(header.command)?`
process_request_command(h) == Command_try_from(h.command)

\* process_request up to the dispatch: read the header, decode the command;
\* the client writes payload_size and request_id out of `fields`
ReadHeaderOf(fields) ==
    /\ CanServe
    /\ req_no < MaxRequests \/ pipe = "broken"
    /\ \E io \in Channel("MessageHeader"), code \in 0..9, f \in fields :
         LET r == read_message("MessageHeader", io)
             h == [command |-> code, payload_size |-> f.payload_size,
                   request_id |-> f.request_id]
             c == process_request_command(h)
         IN  /\ req_no' = req_no + 1
             /\ calls' = <<>>
             /\ last_read' = Io("MessageHeader", io)
             /\ header' = (IF r = "Ok" THEN h ELSE ZeroHeader)
             /\ IF r # "Ok"
                THEN pc' = "returned" /\ error' = r /\ command' = NoCommand
                ELSE IF ~c.ok
                THEN pc' = "returned" /\ error' = c.error
                         /\ command' = NoCommand
                ELSE pc' = "handling" /\ error' = error /\ command' = c.command
    /\ UNCHANGED <<pipe_handle, engine, initialized, running, last_write, pipe,
                   written, response, exit_code, adapters, native_initialized,
                   history>>
    /\ UNCHANGED codec_vars

\* the header of a client that leaves payload_size and request_id zero
ReadHeader == ReadHeaderOf({[payload_size |-> 0, request_id |-> 0]})

\* what a client can write into payload_size and request_id: zeros, or a
\* size that is the size of no request record and another request number
HeaderFields ==
    {[payload_size |-> 0, request_id |-> 0],
     [payload_size |-> 4, request_id |-> 7]}

\* the header of a client that writes any of these
ReadAnyHeader == ReadHeaderOf(HeaderFields)

\* the last two entries of a sequence
LastTwo(seq) == IF Len(seq) <= 2 THEN seq ELSE SubSeq(seq, Len(seq) - 1, Len(seq))

\* the end of a handler: write_message(response) and the return to run
Respond(T, resp, io) ==
    LET w == write_message(T, io)
    IN  /\ last_write' = Io(T, io)
        /\ IF w = "Ok"
           THEN /\ written' = Append(written, req_no)
                /\ response' = resp
                /\ history' = LastTwo(Append(history,
                                  [command |-> command, status |-> resp.status]))
                /\ error' = error
                /\ pc' = "serving"
           ELSE /\ written' = written
                /\ response' = response
                /\ history' = history
                /\ error' = w
                /\ pc' = "returned"

\* a handler whose read_message failed: the error goes up to run
PayloadFailed(r) ==
    /\ pc' = "returned"
    /\ error' = r
    /\ UNCHANGED <<engine, initialized, running, written, response, calls,
                   adapters, native_initialized, last_write, history>>

\* the effect of the native calls cs on the process
Native(cs) ==
    /\ calls' = cs
    /\ adapters' = AliveAfter(adapters, cs)
    /\ native_initialized' = NativeAfter(native_initialized, cs)

\* a Shutdown arm that leaves running as it is
HandleShutdown_KeepRunning ==
    /\ pc = "handling" /\ command = Shutdown
    /\ pc' = "serving"
    /\ UNCHANGED <<pipe_handle, engine, initialized, running, header, command,
                   last_read, last_write, pipe, req_no, written, response,
                   error, exit_code, calls, adapters, native_initialized,
                   history>>
    /\ UNCHANGED codec_vars

\* the Shutdown arm of process_request
HandleShutdown ==
    /\ pc = "handling" /\ command = Shutdown
    /\ running' = FALSE
    /\ pc' = "serving"
    /\ UNCHANGED <<pipe_handle, engine, initialized, header, command,
                   last_read, last_write, pipe, req_no, written, response,
                   error, exit_code, calls, adapters, native_initialized,
                   history>>
    /\ UNCHANGED codec_vars

\* the Ping arm of process_request
HandlePing ==
    /\ pc = "handling" /\ command = Ping
    /\ \E wio \in Channel("GenericResponse") :
         Respond("GenericResponse",
                 [type |-> "GenericResponse", status |-> "Success"], wio)
    /\ UNCHANGED <<pipe_handle, engine, initialized, running, header, command,
                   last_read, pipe, req_no, exit_code, calls, adapters,
                   native_initialized>>
    /\ UNCHANGED codec_vars

\* a handler that detaches the engine when the new one cannot be started
handle_initialize_Detaching(old, was_initialized, load, init_ret, drop_ret) ==
    LET built == EzTransEngine_new(load, drop_ret)
        failed == [type |-> "InitializeResponse", status |-> "Error",
                   success |-> FALSE]
    IN  IF ~built.ok
        THEN [engine |-> NoEngine, initialized |-> FALSE,
              response |-> failed, calls |-> built.calls]
        ELSE LET i == initialize_ex(built.engine, init_ret)
             IN  IF i.ok
                 THEN [engine |-> built.engine, initialized |-> TRUE,
                       response |-> [type |-> "InitializeResponse",
                                     status |-> "Success", success |-> TRUE],
                       calls |-> built.calls \o i.calls
                                     \o (IF old.present
                                         THEN EngineDrop(old, drop_ret)
                                         ELSE <<>>)]
                 ELSE [engine |-> NoEngine, initialized |-> FALSE,
                       response |-> failed,
                       calls |-> built.calls \o i.calls
                                     \o EngineDrop(built.engine, drop_ret)]

\* the match of handle_initialize after the request has been read: the
\* session fields it leaves, the response and the native calls. A failed
\* construction or initialization drops the new adapter; a success drops the
\* old one in the assignment to self.engine
handle_initialize(old, was_initialized, load, init_ret, drop_ret) ==
    LET built == EzTransEngine_new(load, drop_ret)
        failed == [type |-> "InitializeResponse", status |-> "Error",
                   success |-> FALSE]
    IN  IF ~built.ok
        THEN [engine |-> old, initialized |-> was_initialized,
              response |-> failed, calls |-> built.calls]
        ELSE LET i == initialize_ex(built.engine, init_ret)
             IN  IF i.ok
                 THEN [engine |-> built.engine, initialized |-> TRUE,
                       response |-> [type |-> "InitializeResponse",
                                     status |-> "Success", success |-> TRUE],
                       calls |-> built.calls \o i.calls
                                     \o (IF old.present
                                         THEN EngineDrop(old, drop_ret)
                                         ELSE <<>>)]
                 ELSE [engine |-> old, initialized |-> was_initialized,
                       response |-> failed,
                       calls |-> built.calls \o i.calls
                                     \o EngineDrop(built.engine, drop_ret)]

\* TransProxyServer::handle_initialize
HandleInitialize ==
    /\ pc = "handling" /\ command = Initialize
    /\ \E rio \in Channel("InitializeRequest"), load \in LoadOutcomes,
          init_ret \in NativeRets, drop_ret \in NativeRets,
          wio \in Channel("InitializeResponse") :
         LET r == read_message("InitializeRequest", rio)
             h == handle_initialize(engine, initialized, load, init_ret,
                                    drop_ret)
         IN  /\ last_read' = Io("InitializeRequest", rio)
             /\ IF r # "Ok" THEN PayloadFailed(r)
                ELSE /\ engine' = h.engine
                     /\ initialized' = h.initialized
                     /\ running' = running
                     /\ Native(h.calls)
                     /\ Respond("InitializeResponse", h.response, wio)
    /\ UNCHANGED <<pipe_handle, header, command, pipe, req_no, exit_code>>
    /\ UNCHANGED codec_vars

\* a handler that clears the engine and leaves initialized as it is
handle_terminate_KeepingFlag(old, term_ret, drop_ret) ==
    [engine |-> NoEngine, initialized |-> old.present,
     response |-> [type |-> "GenericResponse", status |-> "Success"],
     calls |-> IF old.present
               THEN terminate(old, term_ret).calls \o EngineDrop(old, drop_ret)
               ELSE <<>>]

\* a handler that answers with the result of engine.terminate()
handle_terminate_Reporting(old, term_ret, drop_ret) ==
    [engine |-> NoEngine, initialized |-> FALSE,
     response |-> [type |-> "GenericResponse",
                   status |-> IF old.present /\ ~terminate(old, term_ret).ok
                              THEN "Error" ELSE "Success"],
     calls |-> IF old.present
               THEN terminate(old, term_ret).calls \o EngineDrop(old, drop_ret)
               ELSE <<>>]

\* the body of handle_terminate: engine.terminate() with its result
\* discarded, the drop of the adapter in `self.engine = None`, and the
\* response
handle_terminate(old, term_ret, drop_ret) ==
    [engine |-> NoEngine, initialized |-> FALSE,
     response |-> [type |-> "GenericResponse", status |-> "Success"],
     calls |-> IF old.present
               THEN terminate(old, term_ret).calls \o EngineDrop(old, drop_ret)
               ELSE <<>>]

\* TransProxyServer::handle_terminate
HandleTerminate ==
    /\ pc = "handling" /\ command = Terminate
    /\ \E term_ret \in NativeRets, drop_ret \in NativeRets,
          wio \in Channel("GenericResponse") :
         LET h == handle_terminate(engine, term_ret, drop_ret)
         IN  /\ engine' = h.engine
             /\ initialized' = h.initialized
             /\ running' = running
             /\ Native(h.calls)
             /\ Respond("GenericResponse", h.response, wio)
    /\ UNCHANGED <<pipe_handle, header, command, last_read, pipe, req_no,
                   exit_code>>
    /\ UNCHANGED codec_vars

\* the literal bounds of the copies into the response buffers
LegacyCopyMax == BufCap
WideCopyMax == BufCap - 1

\* the legacy request buffers the model sends: empty, HIRAGANA A, '@', a
\* malformed byte, and a buffer with no zero byte
RequestTextsA ==
    {Buffer(<<>>), Buffer(<<130, 160>>), Buffer(<<AT>>), Buffer(<<255>>),
     Filler(BufCap)}

\* the wide request buffers: empty, HIRAGANA A, HANGUL GA, an unpaired
\* surrogate, and a buffer with no zero unit
RequestTextsW ==
    {Buffer(<<>>), Buffer(<<HIRAGANA_A>>), Buffer(<<HANGUL_GA>>),
     Buffer(<<55296>>), Filler(BufCap)}

\* a handler that sets the result code before it looks at the result
handle_translate_mmnt_CodeFirst(e, request_text, choice, beyond) ==
    IF ~e.present
    THEN [status |-> "NotInitialized", result_code |-> -1,
          translated |-> ZeroBuffer, calls |-> <<>>]
    ELSE LET n == text_len(request_text)
             decoded == SHIFT_JIS_decode(SubSeq(request_text, 1, n))
             t == translate_mmnt(e, decoded, choice, beyond)
         IN  IF ~t.ok
             THEN [status |-> "Error", result_code |-> 0,
                   translated |-> ZeroBuffer, calls |-> t.calls]
             ELSE LET encoded == EUC_KR_encode(t.str)
                      len == Min(Len(encoded), LegacyCopyMax)
                  IN  [status |-> "Success", result_code |-> 0,
                       translated |->
                           [i \in 1..BufCap |->
                                IF i <= len THEN encoded[i] ELSE 0],
                       calls |-> t.calls]

\* the body of handle_translate_mmnt after the request has been read
handle_translate_mmnt(e, request_text, choice, beyond) ==
    IF ~e.present
    THEN [status |-> "NotInitialized", result_code |-> -1,
          translated |-> ZeroBuffer, calls |-> <<>>]
    ELSE LET n == text_len(request_text)
             decoded == SHIFT_JIS_decode(SubSeq(request_text, 1, n))
             t == translate_mmnt(e, decoded, choice, beyond)
         IN  IF ~t.ok
             THEN [status |-> "Error", result_code |-> -1,
                   translated |-> ZeroBuffer, calls |-> t.calls]
             ELSE LET encoded == EUC_KR_encode(t.str)
                      len == Min(Len(encoded), LegacyCopyMax)
                  IN  [status |-> "Success", result_code |-> 0,
                       translated |->
                           [i \in 1..BufCap |->
                                IF i <= len THEN encoded[i] ELSE 0],
                       calls |-> t.calls]

\* a handler without the else branch that sets NotInitialized: the status
\* the response is created with stays
handle_translate_mmntw_NoElse(e, request_text, choice, beyond) ==
    IF ~e.present
    THEN [status |-> "Success", result_code |-> -1,
          translated |-> ZeroBuffer, calls |-> <<>>]
    ELSE LET n == text_len(request_text)
             input == from_utf16_lossy(SubSeq(request_text, 1, n))
             t == default_translate(e, input, choice, beyond)
         IN  IF ~t.ok
             THEN [status |-> "Error", result_code |-> -1,
                   translated |-> ZeroBuffer, calls |-> t.calls]
             ELSE LET utf16 == encode_utf16(t.str)
                      len == Min(Len(utf16), WideCopyMax)
                  IN  [status |-> "Success", result_code |-> 0,
                       translated |->
                           [i \in 1..BufCap |->
                                IF i <= len THEN utf16[i] ELSE 0],
                       calls |-> t.calls]

\* the body of handle_translate_mmntw after the request has been read
handle_translate_mmntw(e, request_text, choice, beyond) ==
    IF ~e.present
    THEN [status |-> "NotInitialized", result_code |-> -1,
          translated |-> ZeroBuffer, calls |-> <<>>]
    ELSE LET n == text_len(request_text)
             input == from_utf16_lossy(SubSeq(request_text, 1, n))
             t == default_translate(e, input, choice, beyond)
         IN  IF ~t.ok
             THEN [status |-> "Error", result_code |-> -1,
                   translated |-> ZeroBuffer, calls |-> t.calls]
             ELSE LET utf16 == encode_utf16(t.str)
                      len == Min(Len(utf16), WideCopyMax)
                  IN  [status |-> "Success", result_code |-> 0,
                       translated |->
                           [i \in 1..BufCap |->
                                IF i <= len THEN utf16[i] ELSE 0],
                       calls |-> t.calls]

\* TransProxyServer::handle_translate_mmnt
HandleTranslateMMNT ==
    /\ pc = "handling" /\ command = TranslateMMNT
    /\ \E rio \in Channel("TranslateMMNTRequest"),
          request_text \in RequestTextsA, choice \in NativeChoicesA,
          beyond \in Beyond, wio \in Channel("TranslateMMNTResponse") :
         LET r == read_message("TranslateMMNTRequest", rio)
             h == handle_translate_mmnt(engine, request_text, choice, beyond)
         IN  /\ last_read' = Io("TranslateMMNTRequest", rio)
             /\ IF r # "Ok" THEN PayloadFailed(r)
                ELSE /\ UNCHANGED <<engine, initialized, running>>
                     /\ Native(h.calls)
                     /\ Respond("TranslateMMNTResponse",
                                [type |-> "TranslateMMNTResponse",
                                 status |-> h.status,
                                 result_code |-> h.result_code,
                                 translated |-> h.translated], wio)
    /\ UNCHANGED <<pipe_handle, header, command, pipe, req_no, exit_code>>
    /\ UNCHANGED codec_vars

\* TransProxyServer::handle_translate_mmntw
HandleTranslateMMNTW ==
    /\ pc = "handling" /\ command = TranslateMMNTW
    /\ \E rio \in Channel("TranslateMMNTWRequest"),
          request_text \in RequestTextsW, choice \in NativeChoicesW,
          beyond \in Beyond, wio \in Channel("TranslateMMNTWResponse") :
         LET r == read_message("TranslateMMNTWRequest", rio)
             h == handle_translate_mmntw(engine, request_text, choice, beyond)
         IN  /\ last_read' = Io("TranslateMMNTWRequest", rio)
             /\ IF r # "Ok" THEN PayloadFailed(r)
                ELSE /\ UNCHANGED <<engine, initialized, running>>
                     /\ Native(h.calls)
                     /\ Respond("TranslateMMNTWResponse",
                                [type |-> "TranslateMMNTWResponse",
                                 status |-> h.status,
                                 result_code |-> h.result_code,
                                 translated |-> h.translated], wio)
    /\ UNCHANGED <<pipe_handle, header, command, pipe, req_no, exit_code>>
    /\ UNCHANGED codec_vars

\* a handler that reports the result of engine.reload_user_dict
handle_reload_user_dict_Reporting(e, ret) ==
    IF e.present
    THEN LET d == reload_user_dict(e, ret)
         IN  [response |-> [type |-> "GenericResponse",
                            status |-> IF d.ok THEN "Success" ELSE "Error"],
              calls |-> d.calls]
    ELSE [response |-> [type |-> "GenericResponse", status |-> "NotInitialized"],
          calls |-> <<>>]

\* the body of handle_reload_user_dict: the result of the call is discarded
handle_reload_user_dict(e, ret) ==
    [response |-> [type |-> "GenericResponse", status |-> "Success"],
     calls |-> IF e.present THEN reload_user_dict(e, ret).calls ELSE <<>>]

\* TransProxyServer::handle_reload_user_dict
HandleReloadUserDict ==
    /\ pc = "handling" /\ command = ReloadUserDict
    /\ \E ret \in NativeRets, wio \in Channel("GenericResponse") :
         LET h == handle_reload_user_dict(engine, ret)
         IN  /\ UNCHANGED <<engine, initialized, running>>
             /\ Native(h.calls)
             /\ Respond("GenericResponse", h.response, wio)
    /\ UNCHANGED <<pipe_handle, header, command, last_read, pipe, req_no,
                   exit_code>>
    /\ UNCHANGED codec_vars

\* a handler that discards the result of engine.set_property
handle_set_property_Discarding(e, ret) ==
    IF e.present
    THEN [status |-> "Success", calls |-> set_property(e, ret).calls]
    ELSE [status |-> "NotInitialized", calls |-> <<>>]

\* the response of handle_set_property after the request has been read
handle_set_property(e, ret) ==
    IF e.present
    THEN LET p == set_property(e, ret)
         IN  [status |-> IF p.ok THEN "Success" ELSE "Error", calls |-> p.calls]
    ELSE [status |-> "NotInitialized", calls |-> <<>>]

\* TransProxyServer::handle_set_property
HandleSetProperty ==
    /\ pc = "handling" /\ command = SetProperty
    /\ \E rio \in Channel("SetPropertyRequest"), ret \in NativeRets,
          wio \in Channel("GenericResponse") :
         LET r == read_message("SetPropertyRequest", rio)
             h == handle_set_property(engine, ret)
         IN  /\ last_read' = Io("SetPropertyRequest", rio)
             /\ IF r # "Ok" THEN PayloadFailed(r)
                ELSE /\ UNCHANGED <<engine, initialized, running>>
                     /\ Native(h.calls)
                     /\ Respond("GenericResponse",
                                [type |-> "GenericResponse", status |-> h.status],
                                wio)
    /\ UNCHANGED <<pipe_handle, header, command, pipe, req_no, exit_code>>
    /\ UNCHANGED codec_vars

\* run returns: `while self.running` finds running false
RunReturns ==
    /\ pc = "serving" /\ ~running
    /\ pc' = "returned"
    /\ UNCHANGED <<pipe_handle, engine, initialized, running, header, command,
                   last_read, last_write, pipe, req_no, written, response,
                   error, exit_code, calls, adapters, native_initialized,
                   history>>
    /\ UNCHANGED codec_vars

\* impl Drop for TransProxyServer: the pipe after DisconnectNamedPipe and
\* CloseHandle, which run only for a valid handle
ServerDrop(handle, p) ==
    IF handle # "INVALID_HANDLE_VALUE" THEN "closed" ELSE p

\* main ends with std::process::exit in both arms. process::exit runs no
\* destructor, so neither ServerDrop nor EngineDrop is applied to the server
\* main still owns
Exit ==
    /\ pc \in {"returned", "failed"}
    /\ exit_code' = IF pc = "returned" THEN 0 ELSE 1
    /\ pc' = "exited"
    /\ UNCHANGED <<pipe_handle, engine, initialized, running, header, command,
                   last_read, last_write, pipe, req_no, written, response,
                   error, calls, adapters, native_initialized, history>>
    /\ UNCHANGED codec_vars


Next ==
    \/ Start
    \/ ReadHeader
    \/ HandleInitialize
    \/ HandleTerminate
    \/ HandleTranslateMMNT
    \/ HandleTranslateMMNTW
    \/ HandleReloadUserDict
    \/ HandleSetProperty
    \/ HandleShutdown
    \/ HandlePing
    \/ RunReturns
    \/ Exit

Spec == Init /\ [][Next]_vars

\* the server with clients that fill in every field of the header
NextHeaders ==
    \/ Start
    \/ ReadAnyHeader
    \/ HandleInitialize
    \/ HandleTerminate
    \/ HandleTranslateMMNT
    \/ HandleTranslateMMNTW
    \/ HandleReloadUserDict
    \/ HandleSetProperty
    \/ HandleShutdown
    \/ HandlePing
    \/ RunReturns
    \/ Exit

SpecHeaders == Init /\ [][NextHeaders]_vars

\* the client closes its end of the pipe while the server is in run
PeerCloses ==
    /\ pipe = "connected" /\ pc \in {"serving", "handling"}
    /\ pipe' = "broken"
    /\ UNCHANGED <<pc, pipe_handle, engine, initialized, running, header,
                   command, last_read, last_write, req_no, written, response,
                   error, exit_code, calls, adapters, native_initialized,
                   history>>
    /\ UNCHANGED codec_vars

\* the server has a step to take that needs nothing from the client: a
\* handler whose engine calls return, a read on a pipe the client has
\* closed, the return of run, the exit of main
ServerCanStep ==
    \/ pc = "handling"
    \/ pc = "serving" /\ (~running \/ pipe = "broken")
    \/ pc \in {"returned", "failed"}

\* such a step: each of them moves main or run on
ServerStep ==
    /\ ServerCanStep
    /\ pc' \in {"serving", "returned", "exited"}
    /\ pc' # pc

NextLive == Next \/ PeerCloses

\* the server with a client that may close the pipe: the server's own
\* steps are taken when they can be; start and a read on an open pipe wait
\* for the client
SpecLive == Init /\ [][NextLive]_vars /\ WF_pc(ServerStep)


(***************************************************************************)
(* The escape codec applied to bounded texts                               *)
(***************************************************************************)
\* the characters the texts are built from: the marker characters, two
\* hexadecimal digits ('0', 'D'), a letter that is no digit ('G'), and one
\* character of each protected class ('@', a Hangul syllable, the listed
\* symbol U+2665)
Alphabet == {PLUS, LOWER_X, UPPER_X, 48, 68, 71, AT, HANGUL_GA, 9829}

\* every text of at most MaxLen characters of the alphabet
ShortTexts == UNION {[1..n -> Alphabet] : n \in 0..MaxLen}

\* the number of characters hangul_decode takes after a marker
EscapeDigits == 4

\* what can stand after a marker: up to four characters out of two
\* hexadecimal digits, a letter that is no digit and '+'. "DDDD" names a
\* surrogate, "00D0" and "D000" name characters
Windows == UNION {[1..n -> {48, 68, 71, PLUS}] : n \in 0..EscapeDigits}

\* what stands before and after: nothing, or one character
Affixes == {<<>>, <<PLUS>>, <<48>>, <<AT>>}

\* texts with a marker and a window, long enough to hold a whole escape
MarkerTexts ==
    {pre \o <<PLUS, m>> \o w \o post :
         pre \in Affixes, m \in {LOWER_X, UPPER_X}, w \in Windows,
         post \in Affixes}

\* the protected code points: every character of the Hangul ranges, '@',
\* NUL and every listed symbol
Protected == {c \in 0..65535 : NeedsEncodingChar(c)} \cup special_chars

\* each protected code point as a text of one character
ProtectedTexts == {<<c>> : c \in Protected}

\* texts with two markers: the second, followed by four digits, begins
\* right after the first, after fewer than four digits, or after four
OverlapTexts ==
    {<<PLUS, m>> \o gap \o <<PLUS, n>> \o w :
         m \in {LOWER_X, UPPER_X}, n \in {LOWER_X, UPPER_X},
         gap \in {<<>>, <<48>>, <<48, 68>>, <<48, 48, 68>>, <<48, 48, 68, 48>>},
         w \in [1..EscapeDigits -> {48, 68}]}

Texts == ShortTexts \cup MarkerTexts \cup ProtectedTexts \cup OverlapTexts

InitCodec ==
    /\ ServerInit
    /\ text \in Texts
    /\ result = NoResult

\* hangul_encode(text)
Encode ==
    /\ result.op = "none"
    /\ result' = [op |-> "encoded", encoded |-> hangul_encode(text)]
    /\ UNCHANGED <<text, shm, server_vars>>

\* hangul_decode of what hangul_encode returned
DecodeEncoded ==
    /\ result.op = "encoded"
    /\ result' = [op |-> "roundtrip", encoded |-> result.encoded,
                  decoded |-> hangul_decode(result.encoded)]
    /\ UNCHANGED <<text, shm, server_vars>>

\* hangul_decode(text)
Decode ==
    /\ result.op = "none"
    /\ result' = [op |-> "decoded", decoded |-> hangul_decode(text)]
    /\ UNCHANGED <<text, shm, server_vars>>

NextCodec == Encode \/ DecodeEncoded \/ Decode

SpecCodec == InitCodec /\ [][NextCodec]_vars

\* the adapters default_translate runs on: one with the extended functions,
\* which takes the wide path, and one without, which takes the legacy path
TranslateEngines ==
    {Adapter(Exports),
     Adapter(Exports \ {"J2K_InitializeEx", "J2K_TranslateMMNTW"}),
     Adapter(Exports \ {"J2K_TranslateMMNTW"}),
     Adapter(Exports \ {"J2K_InitializeEx", "J2K_TranslateMMNT"})}

\* the translation with the codec applied whatever the input holds:
\* hangul_decode(engine(hangul_encode(input)))
codec_translate(e, input, choice, beyond) ==
    LET encoded == hangul_encode(input)
        translated == IF "J2K_InitializeEx" \in e.fns
                      THEN translate_mmntw(e, encoded, choice)
                      ELSE translate_mmnt(e, encoded, choice, beyond)
    IN  IF ~translated.ok THEN translated
        ELSE [ok |-> TRUE, str |-> hangul_decode(translated.str),
              calls |-> translated.calls]

\* what a translation gave: the text, or the failure, and the native calls
Outcome(t) ==
    [ok |-> t.ok, str |-> IF t.ok THEN t.str ELSE <<>>, calls |-> t.calls]

\* default_translate(text) on some engine, next to the translation that
\* applies the codec without the pre-check
Translate ==
    /\ result.op = "none"
    /\ \E e \in TranslateEngines, beyond \in Beyond :
         \E choice \in (IF "J2K_InitializeEx" \in e.fns
                         THEN NativeChoicesW ELSE NativeChoicesA) :
           result' = [op |-> "translated",
                      wide |-> "J2K_InitializeEx" \in e.fns,
                      fns |-> e.fns,
                      gated |-> Outcome(default_translate(e, text, choice,
                                                          beyond)),
                      ungated |-> Outcome(codec_translate(e, text, choice,
                                                          beyond))]
    /\ UNCHANGED <<text, shm, server_vars>>

NextTranslate == Translate

\* the inputs of default_translate: the texts with a marker, each protected
\* code point, and every text shorter than MaxLen
TranslateTexts == MarkerTexts \cup {t \in Texts : Len(t) < MaxLen}

InitTranslate ==
    /\ ServerInit
    /\ text \in TranslateTexts
    /\ result = NoResult

SpecTranslate == InitTranslate /\ [][NextTranslate]_vars

(***************************************************************************)
(* Command::try_from applied to bounded values                             *)
(***************************************************************************)
\* the values decoded: the small ones, and three large ones (the last is
\* 2^31 - 1, the largest integer of the model)
CommandValues == (0..MaxCommandValue) \cup {255, 65536, 2147483647}

InitCommand ==
    /\ ServerInit
    /\ text = <<>>
    /\ result \in {[op |-> "value", value |-> v] : v \in CommandValues}

\* Command::try_from(value)
TryFrom ==
    /\ result.op = "value"
    /\ result' = [op |-> "try_from", value |-> result.value,
                  r |-> Command_try_from(result.value)]
    /\ UNCHANGED <<text, shm, server_vars>>

\* the command that was decoded, cast back with `as u32`
AsU32 ==
    /\ result.op = "try_from" /\ result.r.ok
    /\ result' = [op |-> "as_u32", value |-> result.value, r |-> result.r,
                  back |-> Command_as_u32(result.r.command)]
    /\ UNCHANGED <<text, shm, server_vars>>

NextCommand == TryFrom \/ AsU32

SpecCommand == InitCommand /\ [][NextCommand]_vars

(***************************************************************************)
(* Properties                                                              *)
(***************************************************************************)
\* the text holds a literal marker: '+' directly followed by 'x' or 'X'
HasLiteralMarker(t) ==
    \E k \in 1..(Len(t) - 1) : t[k] = PLUS /\ t[k + 1] \in {LOWER_X, UPPER_X}

\* C3 as stated: decode(encode(text)) = text for every text of protected
\* and arbitrary unprotected characters, '+', 'x', 'X' and digits included
C3_RoundTripAnyText ==
    result.op = "roundtrip" => result.decoded = text

\* C3 as amended: decode(encode(text)) = text for every text in which no
\* '+' is directly followed by 'x' or 'X'
C3_RoundTripNoLiteralMarker ==
    (result.op = "roundtrip" /\ ~HasLiteralMarker(text))
        => result.decoded = text

\* C3: a round trip of a text with a bare '+', a protected character of
\* each marker variant and a digit
C3_Witness ==
    /\ result.op = "roundtrip"
    /\ ~HasLiteralMarker(text)
    /\ \E i, j, k, l \in 1..Len(text) :
          /\ text[i] = PLUS
          /\ IsRangeEscaped(text[j])
          /\ text[k] \in special_chars
          /\ text[l] = 48
    /\ Len(text) = 4
    /\ result.encoded # text
    /\ result.decoded = text


\* the response record each command is answered with
ResponseTypeOf(c) ==
    CASE c = Initialize -> "InitializeResponse"
      [] c = TranslateMMNT -> "TranslateMMNTResponse"
      [] c = TranslateMMNTW -> "TranslateMMNTWResponse"
      [] OTHER -> "GenericResponse"

Statuses == {"Success", "Error", "NotInitialized", "InvalidParameter"}

\* a ReadFile / WriteFile report that read_message / write_message accept
IoFine(x) == x.T = "none" \/ (x.ok /\ x.bytes = size_of(x.T))

\* some call of cs is a call of fn that returned ret
HasCall(cs, fn, ret) ==
    \E k \in 1..Len(cs) : cs[k].fn = fn /\ cs[k].ret = ret

TranslateFns == {"J2K_TranslateMMNT", "J2K_TranslateMMNTW"}

\* C1 as stated: once a request with a recognized command has been handled
\* with every read and write accepted, exactly one response has been written
\* for it and for each request before it, of the record type of its command
\* and with a status of the protocol; Shutdown's is a GenericResponse with
\* status Success
C1_EveryCommandAnswered ==
    (pc = "serving" /\ req_no > 0) =>
        /\ Len(written) = req_no
        /\ \A k \in 1..req_no : written[k] = k
        /\ response.type = ResponseTypeOf(command)
        /\ response.status \in Statuses
        /\ (command = Shutdown =>
               response = [type |-> "GenericResponse", status |-> "Success"])

\* C2: a translate request handled with no engine attached is answered
\* NotInitialized with result code -1 and an all-zero buffer, and no native
\* translate function is called
C2_TranslateWithoutEngine ==
    [][ (pc = "handling" /\ command \in {TranslateMMNT, TranslateMMNTW}
            /\ ~engine.present)
        => /\ \A k \in 1..Len(calls') : calls'[k].fn \notin TranslateFns
           /\ ~engine'.present
           /\ (pc' = "serving"
                 => /\ response'.type = ResponseTypeOf(command)
                    /\ response'.status = "NotInitialized"
                    /\ response'.result_code = -1
                    /\ response'.translated = ZeroBuffer
                    /\ written' = Append(written, req_no)) ]_vars

\* C2: a TranslateExtended request answered NotInitialized
C2_Witness ==
    /\ pc = "serving"
    /\ command = TranslateMMNTW
    /\ ~engine.present
    /\ written # <<>> /\ written[Len(written)] = req_no
    /\ response.type = "TranslateMMNTWResponse"
    /\ response.status = "NotInitialized"

\* C4 as stated: when the process has ended, the pipe that was created has
\* been disconnected and closed and no adapter is left with its engine
\* unterminated and its library loaded
C4_ReleasedOnExit ==
    pc = "exited" =>
        /\ (pipe_handle # "INVALID_HANDLE_VALUE" => pipe = "closed")
        /\ ~engine.present
        /\ adapters = 0

\* C5: a header with an unrecognized command code ends the loop with
\* InvalidCommand, with no payload read, no response written and the session
\* unchanged, and nothing is read or written afterwards
C5_InvalidCommandFatal ==
    [][ /\ (CanServe /\ req_no' # req_no /\ IoFine(last_read')
              /\ header'.command \notin 1..8)
            => /\ error' = "InvalidCommand"
               /\ pc' = "returned"
               /\ last_read'.T = "MessageHeader"
               /\ calls' = <<>>
               /\ UNCHANGED <<engine, initialized, running, written,
                              response, last_write>>
        /\ error = "InvalidCommand"
            => UNCHANGED <<req_no, last_read, last_write, written, response,
                           engine, initialized, running, calls>> ]_vars

\* C5: the code 9 arrived with an engine attached and requests still to come
C5_Witness ==
    /\ pc = "exited"
    /\ error = "InvalidCommand"
    /\ header.command = 9
    /\ engine.present /\ initialized /\ running
    /\ req_no < MaxRequests


TransportErrors == {"Io", "IncompleteRead", "IncompleteWrite"}

\* the step handles a request and every read and write it makes is accepted
HandledWithIo ==
    pc = "handling" /\ IoFine(last_read') /\ IoFine(last_write')

\* the engine work of the handler that has just run failed: construction or
\* extended initialization for Initialize; a missing function, a failed call
\* or a failed conversion of the result for SetProperty and the translates
FailureReportable(c, e, cs) ==
    \/ c = Initialize /\ ~HasCall(cs, "J2K_InitializeEx", 1)
    \/ c = SetProperty /\ e.present /\ ~HasCall(cs, "J2K_SetProperty", 0)
    \/ c \in {TranslateMMNT, TranslateMMNTW} /\ e.present
          /\ \A k \in 1..Len(cs) : ~(cs[k].fn \in TranslateFns /\ cs[k].ret = 1)
    \/ c = TranslateMMNTW /\ e.present /\ "J2K_FreeMem" \in e.fns
          /\ cs # <<>> /\ cs[Len(cs)].fn = "J2K_TranslateMMNTW"

\* the engine call of Terminate or ReloadUserDict failed or could not be made
FailureSwallowed(c, e, cs) ==
    \/ c = Terminate /\ cs # <<>> /\ cs[1] = Call("J2K_Terminate", 1)
    \/ c = ReloadUserDict /\ e.present /\ ~HasCall(cs, "J2K_ReloadUserDict", 0)

\* the loop leaves run only on Shutdown, a transport failure or an
\* unrecognized command; a handled request returns to the loop
LoopEndsOnlyOnTransport ==
    /\ (pc \in {"serving", "handling"} /\ pc' = "returned")
           => (~running \/ error' \in TransportErrors \cup {"InvalidCommand"})
    /\ HandledWithIo => (pc' = "serving" /\ error' = "none")

C7_ShortIoFatal ==
    [][ /\ (pc \in {"serving", "handling"} /\ last_read'.T # "none"
              /\ last_read'.ok /\ last_read'.bytes # size_of(last_read'.T))
            => /\ error' = "IncompleteRead"
               /\ pc' = "returned"
               /\ UNCHANGED <<engine, initialized, running, written,
                              response, last_write, adapters,
                              native_initialized>>
        /\ (pc = "handling" /\ last_write' # last_write
              /\ last_write'.ok /\ last_write'.bytes # size_of(last_write'.T))
            => /\ error' = "IncompleteWrite"
               /\ pc' = "returned"
               /\ UNCHANGED <<written, response>>
        /\ error \in {"IncompleteRead", "IncompleteWrite"}
            => /\ pc \in {"returned", "exited"}
               /\ UNCHANGED <<req_no, last_read, last_write, written,
                              response, engine, initialized, running, calls>>
      ]_vars

\* C7: a TranslateExtended request one byte short arrived with an engine
\* attached
C7_Witness ==
    /\ pc = "exited"
    /\ error = "IncompleteRead"
    /\ last_read = [T |-> "TranslateMMNTWRequest", ok |-> TRUE,
                    bytes |-> size_of("TranslateMMNTWRequest") - 1]
    /\ engine.present /\ initialized /\ running
    /\ req_no < MaxRequests

\* C8: Shutdown sets running to false in every session state; from then on
\* no header is read, no command handled and nothing written, and run returns
C8_ShutdownStopsLoop ==
    [][ /\ (pc = "handling" /\ command = Shutdown)
            => (running' = FALSE /\ pc' = "serving")
        /\ ~running
            => /\ pc' \in {"returned", "exited"}
               /\ UNCHANGED <<req_no, header, command, last_read, last_write,
                              written, response, engine, initialized,
                              running, calls>> ]_vars

\* C8: the process has ended after a Shutdown received with an engine
\* attached and requests still to come
C8_Witness ==
    /\ pc = "exited"
    /\ ~running
    /\ command = Shutdown
    /\ engine.present /\ initialized
    /\ req_no < MaxRequests

\* C9: a header is read only when no request is being handled; a response
\* is written only for the request being handled, at most one for each, so
\* the responses are in the order of the requests
C9_OneRequestAtATime ==
    [][ /\ req_no' # req_no
            => (pc = "serving" /\ req_no' = req_no + 1)
        /\ written' # written
            => /\ pc = "handling" /\ pc' = "serving"
               /\ req_no' = req_no
               /\ written' = Append(written, req_no)
               /\ \A k \in 1..Len(written) : written[k] < req_no ]_vars

\* C9: three requests answered in order and the fourth being handled
C9_Witness ==
    /\ pc = "handling"
    /\ req_no = 4
    /\ written = <<1, 2, 3>>

\* C10: Terminate leaves the engine absent and initialized false in every
\* session state, and answers Success whether or not the native terminate
\* call fails; so does a Terminate that follows it
C10_TerminateIdempotent ==
    [][ (pc = "handling" /\ command = Terminate)
        => /\ ~engine'.present
           /\ ~initialized'
           /\ running' = running
           /\ (engine.present <=> calls' # <<>>)
           /\ IoFine(last_write')
                => /\ pc' = "serving"
                   /\ written' = Append(written, req_no)
                   /\ response' = [type |-> "GenericResponse",
                                   status |-> "Success"] ]_vars

\* C10: a Terminate whose native call reported a failure was answered
\* Success and left no engine
C10_Witness ==
    /\ pc = "serving"
    /\ command = Terminate
    /\ calls # <<>> /\ calls[1] = Call("J2K_Terminate", 1)
    /\ ~engine.present /\ ~initialized
    /\ response = [type |-> "GenericResponse", status |-> "Success"]
    /\ written # <<>> /\ written[Len(written)] = req_no

\* the Initialize being handled did not start an engine: the library did not
\* load, a required function was missing, or J2K_InitializeEx was absent or
\* did not return 1
InitializeFailed(cs) == ~HasCall(cs, "J2K_InitializeEx", 1)

\* C11: a failed Initialize is answered InitializeResponse{Error, false},
\* leaves engine, initialized and running as they were and returns to the
\* loop; an Initialize whose engine starts attaches it and sets initialized,
\* whatever happened before
C11_FailedInitializeKeepsSession ==
    [][ (pc = "handling" /\ command = Initialize /\ IoFine(last_read'))
        => /\ InitializeFailed(calls')
               => /\ UNCHANGED <<engine, initialized, running>>
                  /\ IoFine(last_write')
                       => /\ response' = [type |-> "InitializeResponse",
                                          status |-> "Error",
                                          success |-> FALSE]
                          /\ written' = Append(written, req_no)
                          /\ CanServe'
           /\ ~InitializeFailed(calls')
               => /\ engine'.present /\ initialized' /\ running' = running
                  /\ IoFine(last_write')
                       => response' = [type |-> "InitializeResponse",
                                       status |-> "Success",
                                       success |-> TRUE] ]_vars

\* C11: an Initialize that failed was followed by one that succeeded
C11_Witness ==
    /\ CanServe
    /\ history = <<[command |-> Initialize, status |-> "Error"],
                   [command |-> Initialize, status |-> "Success"]>>
    /\ engine.present /\ initialized
    /\ response.success

\* the adapter's translate returned Ok: the native function gave a pointer
\* and the text found there converted (UTF-16 for the wide function, EUC-KR
\* for the legacy one)
TranslateSucceeded(cs) ==
    \E k \in 1..Len(cs) :
        /\ cs[k].fn \in TranslateFns
        /\ cs[k].ret = 1
        /\ IF cs[k].fn = "J2K_TranslateMMNTW"
           THEN from_utf16(cs[k].out).ok
           ELSE ~EUC_KR_had_errors(cs[k].out)

\* C12: a translate command handled with an engine attached is answered
\* Success with result code 0 when the engine translate call succeeds and
\* Error with result code -1 when it fails; in every translate response the
\* result code is 0 exactly when the status is Success, and in every
\* InitializeResponse success is true exactly when the status is Success
C12_StatusAndResultCode ==
    [][ /\ (HandledWithIo /\ command \in {TranslateMMNT, TranslateMMNTW})
            => /\ response'.type = ResponseTypeOf(command)
               /\ (engine.present /\ TranslateSucceeded(calls'))
                    => (response'.status = "Success"
                          /\ response'.result_code = 0)
               /\ (engine.present /\ ~TranslateSucceeded(calls'))
                    => (response'.status = "Error"
                          /\ response'.result_code = -1)
               /\ response'.result_code \in {0, -1}
               /\ (response'.result_code = 0 <=> response'.status = "Success")
        /\ (HandledWithIo /\ command = Initialize)
            => /\ response'.type = "InitializeResponse"
               /\ (response'.success <=> response'.status = "Success")
      ]_vars

\* C12: a TranslateExtended answered Success was followed by a
\* TranslateLegacy whose native call returned bytes that are not EUC-KR,
\* answered Error with result code -1
C12_Witness ==
    /\ pc = "serving"
    /\ history = <<[command |-> TranslateMMNTW, status |-> "Success"],
                   [command |-> TranslateMMNT, status |-> "Error"]>>
    /\ engine.present
    /\ HasCall(calls, "J2K_TranslateMMNT", 1)
    /\ response.result_code = -1

\* every protected character of the text a native translate function was
\* given is escaped: hangul_encode leaves none in its output
ArgumentEscaped(c) == \A j \in 1..Len(c.arg) : ~NeedsEncodingChar(c.arg[j])

\* C13 as stated: for TranslateLegacy and TranslateExtended alike, a request
\* text with a character that needs encoding reaches the engine encoded, so
\* no protected character is in the text the native function is given
C13_CodecOnBothPaths ==
    [][ (HandledWithIo /\ command \in {TranslateMMNT, TranslateMMNTW}
            /\ engine.present)
        => \A k \in 1..Len(calls') :
               calls'[k].fn \in TranslateFns => ArgumentEscaped(calls'[k])
      ]_vars

TranslateResponses == {"TranslateMMNTResponse", "TranslateMMNTWResponse"}

\* C14 as stated: the translated buffer of every translate response, legacy
\* and extended, has the capacity of the record and holds a zero unit, so at
\* most capacity - 1 units of text are followed by a terminator
C14_ResponseTerminated ==
    response.type \in TranslateResponses
        => /\ Len(response.translated) = BufCap
           /\ \E k \in 1..BufCap : response.translated[k] = 0

RECURSIVE PeakAlive(_, _)
\* the largest number of adapters alive at once while the calls cs are made,
\* starting from n: LoadLibraryA gives EzTransEngine::new its module, and the
\* adapter lives until its drop calls FreeLibrary
PeakAlive(n, cs) ==
    IF cs = <<>> THEN n
    ELSE LET m == AliveAfter(n, <<Head(cs)>>)
             rest == PeakAlive(m, Tail(cs))
         IN  IF n > rest THEN n ELSE rest

\* C15 as stated: at every point of every command sequence at most one
\* adapter is alive, also while a handler runs; an Initialize received with
\* an engine attached builds no second adapter beside the first
C15_AtMostOneAdapter ==
    [][ /\ adapters <= 1
        /\ pc = "handling" => PeakAlive(adapters, calls') <= 1 ]_vars

\* the text holds no protected character
Unprotected(t) == \A k \in 1..Len(t) : ~NeedsEncodingChar(t[k])

\* some marker of the text is followed by four ASCII hexadecimal digits
HasEscapeLookalike(t) ==
    \E k \in 1..(Len(t) - 5) :
        /\ t[k] = PLUS
        /\ t[k + 1] \in {LOWER_X, UPPER_X}
        /\ \A j \in (k + 2)..(k + 5) :
               t[j] \in (48..57) \cup (65..70) \cup (97..102)

\* C16 as stated: a text with no protected character is left unchanged by
\* hangul_encode and by hangul_decode
C16_UnprotectedUnchanged ==
    Unprotected(text)
        => /\ result.op = "encoded" => result.encoded = text
           /\ result.op = "decoded" => result.decoded = text

\* C16 as amended: a text with no protected character is left unchanged by
\* hangul_encode, and by hangul_decode when no marker in it is followed by
\* four hexadecimal digits
C16_UnprotectedUnchangedNoEscape ==
    Unprotected(text)
        => /\ result.op = "encoded" => result.encoded = text
           /\ (result.op = "decoded" /\ ~HasEscapeLookalike(text))
                => result.decoded = text

\* C16: hangul_decode has left a text unchanged that holds a marker followed
\* by three hexadecimal digits and a letter
C16_Witness ==
    /\ result.op = "decoded"
    /\ text = <<48, PLUS, LOWER_X, 48, 48, 68, 71>>
    /\ Unprotected(text)
    /\ result.decoded = text

\* C17: the text of one protected code point, whichever it is, encodes to a
\* six-character escape and decodes back to itself
C17_ProtectedCodePointRoundTrip ==
    (result.op = "roundtrip" /\ Len(text) = 1 /\ text[1] \in Protected)
        => /\ Len(result.encoded) = 6
           /\ result.decoded = text

\* C17: the round trip of the last Hangul syllable, U+D7A3
C17_Witness ==
    /\ result.op = "roundtrip"
    /\ text = <<55203>>
    /\ result.encoded = <<PLUS, LOWER_X, 68, 55, 65, 51>>
    /\ result.decoded = text

\* the ASCII hexadecimal digits
HexDigits == (48..57) \cup (65..70) \cup (97..102)

\* the window w after a marker is four hexadecimal digits that name a
\* character (no surrogate)
NamesCharacter(w) ==
    /\ Len(w) = 4
    /\ \A k \in 1..4 : w[k] \in HexDigits
    /\ from_str_radix(w) \notin 55296..57343

\* the text has a '+', and the first one begins a marker
FirstPlusIsMarker(t) ==
    \E i \in 1..(Len(t) - 1) :
        /\ t[i] = PLUS /\ t[i + 1] \in {LOWER_X, UPPER_X}
        /\ \A j \in 1..(i - 1) : t[j] # PLUS

\* the index of the first '+'
FirstPlus(t) == CHOOSE i \in 1..Len(t) : t[i] = PLUS /\ \A j \in 1..(i - 1) : t[j] # PLUS

\* the at most four characters after the marker that begins at i
WindowAt(t, i) == SubSeq(t, i + 2, Min(i + 5, Len(t)))

\* C18: hangul_decode always returns a text, no longer than its input; it
\* returns the input unchanged when no marker in it is followed by four
\* hexadecimal digits; and a marker followed by a character that is no
\* hexadecimal digit, by fewer than four characters or by four digits that
\* name a surrogate is written back with the characters taken after it,
\* decoding going on behind them
C18_DecodePassthrough ==
    result.op = "decoded" =>
        /\ Len(result.decoded) <= Len(text)
        /\ \A k \in 1..Len(result.decoded) : IsScalarValue(result.decoded[k])
        /\ ~HasEscapeLookalike(text) => result.decoded = text
        /\ FirstPlusIsMarker(text) =>
               LET i == FirstPlus(text)
                   w == WindowAt(text, i)
                   behind == i + 2 + Len(w)
               IN  ~NamesCharacter(w) =>
                       result.decoded =
                           SubSeq(text, 1, behind - 1)
                               \o hangul_decode(SubSeq(text, behind, Len(text)))

\* C18: "+xDDDD0", a marker with four digits that name a surrogate, decoded
\* to itself
C18_Witness ==
    /\ result.op = "decoded"
    /\ text = <<PLUS, LOWER_X, 68, 68, 68, 68, 48>>
    /\ HasEscapeLookalike(text)
    /\ result.decoded = text

\* the uppercase hexadecimal digits
UpperHexDigits == (48..57) \cup (65..70)

\* e is what hangul_encode is to write for the character c
EscapeOf(c, e) ==
    IF c = AT \/ c = NUL \/ is_hangul_range(c) \/ c \in special_chars
    THEN /\ Len(e) = 6
         /\ e[1] = PLUS
         /\ e[2] = (IF c \in special_chars THEN UPPER_X ELSE LOWER_X)
         /\ \A k \in 3..6 : e[k] \in UpperHexDigits
         /\ from_str_radix(SubSeq(e, 3, 6)) = c
    ELSE e = <<c>>

RECURSIVE EncodedAs(_, _)
\* e is the pieces of the characters of t, one after the other in order
EncodedAs(t, e) ==
    IF t = <<>> THEN e = <<>>
    ELSE LET n == IF NeedsEncodingChar(Head(t)) THEN 6 ELSE 1
         IN  /\ Len(e) >= n
             /\ EscapeOf(Head(t), SubSeq(e, 1, n))
             /\ EncodedAs(Tail(t), SubSeq(e, n + 1, Len(e)))

\* C19: hangul_encode writes, for each character in order, '+x' and four
\* uppercase hexadecimal digits for a Hangul-range character, '@' or NUL,
\* '+X' and four uppercase hexadecimal digits for a listed symbol, and the
\* character itself otherwise; every escape is six characters long
C19_EncodeCharacterwise ==
    result.op = "encoded" => EncodedAs(text, result.encoded)

\* C19: "\uAC00G\u2665@" encoded as "+xAC00G+X2665+x0040"
C19_Witness ==
    /\ result.op = "encoded"
    /\ text = <<HANGUL_GA, 71, 9829, AT>>
    /\ result.encoded = <<PLUS, LOWER_X, 65, 67, 48, 48, 71,
                          PLUS, UPPER_X, 50, 54, 54, 53,
                          PLUS, LOWER_X, 48, 48, 52, 48>>

\* C20: Command::try_from gives Initialize, Terminate, TranslateMMNT,
\* TranslateMMNTW, ReloadUserDict, SetProperty, Shutdown, Ping for 1..8 in
\* this order, the command cast back is the value it came from, and every
\* other value gives the InvalidCommand error that carries the value
C20_CommandDecoding ==
    /\ result.op \in {"try_from", "as_u32"} =>
           LET v == result.value
               r == result.r
               expected == <<Initialize, Terminate, TranslateMMNT,
                             TranslateMMNTW, ReloadUserDict, SetProperty,
                             Shutdown, Ping>>
           IN  IF v \in 1..8
               THEN r.ok /\ r.command = expected[v]
               ELSE ~r.ok /\ r.error = "InvalidCommand" /\ r.value = v
    /\ result.op = "as_u32" => result.back = result.value

\* C20: the value 4 decoded to TranslateMMNTW and cast back to 4
C20_Witness ==
    /\ result.op = "as_u32"
    /\ result.value = 4
    /\ result.r = [ok |-> TRUE, command |-> TranslateMMNTW]
    /\ result.back = 4

\* the request record each command carries after the header
RequestTypeOf(c) ==
    CASE c = Initialize -> "InitializeRequest"
      [] c = TranslateMMNT -> "TranslateMMNTRequest"
      [] c = TranslateMMNTW -> "TranslateMMNTWRequest"
      [] c = SetProperty -> "SetPropertyRequest"
      [] OTHER -> "none"

\* the sizes of the records in bytes, as the protocol states them
StatedSize(T) ==
    CASE T = "MessageHeader" -> 16
      [] T = "InitializeRequest" -> 520
      [] T = "TranslateMMNTRequest" -> 4100
      [] T = "TranslateMMNTWRequest" -> 8196
      [] T = "SetPropertyRequest" -> 8
      [] T = "InitializeResponse" -> 8
      [] T = "TranslateMMNTResponse" -> 4104
      [] T = "TranslateMMNTWResponse" -> 8200
      [] T = "GenericResponse" -> 4
      [] OTHER -> 0

Records ==
    {"MessageHeader", "InitializeRequest", "TranslateMMNTRequest",
     "TranslateMMNTWRequest", "SetPropertyRequest", "InitializeResponse",
     "TranslateMMNTResponse", "TranslateMMNTWResponse", "GenericResponse"}

\* C21: the header is read as 16 bytes; after it a handler makes one read
\* of the request record of its command, accepted only at 520 bytes for
\* Initialize, 4100 for TranslateLegacy, 8196 for TranslateExtended and 8
\* for SetProperty, and makes no read for Terminate, ReloadUserDict,
\* Shutdown and Ping; a response is written as the record of the command,
\* accepted only at 8 bytes for InitializeResponse, 4104 and 8200 for the
\* translate responses and 4 for GenericResponse; each of these sizes is
\* the size of the record's fields laid out under 8-byte packing
C21_RecordSizes ==
    [][ /\ pc = "new" => \A T \in Records : size_of(T) = StatedSize(T)
        /\ req_no' # req_no
            => /\ last_read'.T = "MessageHeader"
               /\ pc' = "handling" => (last_read'.ok /\ last_read'.bytes = 16)
        /\ (pc = "handling" /\ pc' # "handling")
            => /\ IF RequestTypeOf(command) = "none"
                  THEN last_read' = last_read
                  ELSE /\ last_read'.T = RequestTypeOf(command)
                       /\ last_write' # last_write
                            => /\ last_read'.ok
                               /\ last_read'.bytes
                                      = StatedSize(RequestTypeOf(command))
               /\ last_write' # last_write
                    => last_write'.T = ResponseTypeOf(command)
               /\ written' # written
                    => /\ last_write'.ok
                       /\ last_write'.bytes = StatedSize(ResponseTypeOf(command))
                       /\ response'.type = ResponseTypeOf(command)
      ]_vars

\* C21: an Initialize request of 520 bytes has been read after its header
\* and answered with an InitializeResponse of 8 bytes
C21_Witness ==
    /\ command = Initialize /\ pc = "serving"
    /\ last_read = [T |-> "InitializeRequest", ok |-> TRUE, bytes |-> 520]
    /\ last_write = [T |-> "InitializeResponse", ok |-> TRUE, bytes |-> 8]
    /\ response.type = "InitializeResponse"
    /\ written # <<>> /\ written[Len(written)] = req_no

\* C22: SetProperty reads its 8-byte request first; with every read and
\* write accepted it answers NotInitialized with no engine call when no
\* engine is attached, Error with no engine call when the engine lacks the
\* function, Error when the call returns nonzero and Success when it
\* returns 0; engine, initialized and running are unchanged whatever
\* happens, and the loop goes on after the response
C22_SetProperty ==
    [][ (pc = "handling" /\ command = SetProperty)
          => /\ last_read'.T = "SetPropertyRequest"
             /\ UNCHANGED <<engine, initialized, running>>
             /\ ~IoFine(last_read') => (last_write' = last_write /\ calls' = calls)
             /\ HandledWithIo
                  => /\ pc' = "serving"
                     /\ written' = Append(written, req_no)
                     /\ response'.type = "GenericResponse"
                     /\ last_read'.bytes = 8
                     /\ IF ~engine.present
                        THEN response'.status = "NotInitialized" /\ calls' = <<>>
                        ELSE IF "J2K_SetProperty" \notin engine.fns
                        THEN response'.status = "Error" /\ calls' = <<>>
                        ELSE /\ Len(calls') = 1
                             /\ calls'[1].fn = "J2K_SetProperty"
                             /\ response'.status
                                    = (IF calls'[1].ret = 0 THEN "Success"
                                       ELSE "Error")
      ]_vars

\* C22: a SetProperty sent to an engine that lacks the function was
\* answered Error with no engine call, and the session is as it was
C22_Witness ==
    /\ CanServe /\ command = SetProperty
    /\ engine.present /\ initialized
    /\ "J2K_SetProperty" \notin engine.fns
    /\ calls = <<>>
    /\ response = [type |-> "GenericResponse", status |-> "Error"]
    /\ written # <<>> /\ written[Len(written)] = req_no

\* C23: ReloadUserDict reads no payload and answers a GenericResponse with
\* status Success in every session state: with no engine attached (no
\* engine call), when the reload succeeds, and when it fails or the engine
\* lacks the function; engine, initialized and running are unchanged
C23_ReloadAlwaysSuccess ==
    [][ (pc = "handling" /\ command = ReloadUserDict)
          => /\ UNCHANGED <<engine, initialized, running, last_read>>
             /\ last_write'.T = "GenericResponse"
             /\ ~engine.present => calls' = <<>>
             /\ \A k \in 1..Len(calls') : calls'[k].fn = "J2K_ReloadUserDict"
             /\ IoFine(last_write')
                  => /\ response'
                          = [type |-> "GenericResponse", status |-> "Success"]
                     /\ written' = Append(written, req_no)
                     /\ pc' = "serving"
      ]_vars

\* C23: after a successful Initialize, a ReloadUserDict whose native call
\* failed was answered Success
C23_Witness ==
    /\ CanServe /\ command = ReloadUserDict
    /\ engine.present /\ initialized
    /\ calls = <<Call("J2K_ReloadUserDict", 1)>>
    /\ response = [type |-> "GenericResponse", status |-> "Success"]
    /\ written # <<>> /\ written[Len(written)] = req_no
    /\ Len(history) = 2
    /\ history[1] = [command |-> Initialize, status |-> "Success"]

\* C24: the engine goes from absent to present only in an Initialize whose
\* construction and extended initialization both succeed, and from present
\* to absent only in a Terminate; running is true at the start, becomes
\* false only in a Shutdown and never becomes true again; TranslateLegacy,
\* TranslateExtended, SetProperty, ReloadUserDict and Ping leave engine,
\* initialized and running unchanged
C24_SessionTransitions ==
    [][ /\ pc = "new" => (running /\ ~engine.present /\ ~initialized)
        /\ (~engine.present /\ engine'.present)
            => /\ pc = "handling" /\ command = Initialize
               /\ HasCall(calls', "LoadLibraryA", 1)
               /\ load_functions(engine'.fns) = "Ok"
               /\ HasCall(calls', "J2K_InitializeEx", 1)
        /\ (engine.present /\ ~engine'.present)
            => (pc = "handling" /\ command = Terminate)
        /\ running' # running
            => (running /\ pc = "handling" /\ command = Shutdown)
        /\ (pc = "handling"
               /\ command \in {TranslateMMNT, TranslateMMNTW, SetProperty,
                                ReloadUserDict, Ping})
            => UNCHANGED <<engine, initialized, running>>
      ]_vars

\* C24: the engine was attached by an Initialize and detached by a
\* Terminate, and a Shutdown then ended the loop
C24_Witness ==
    /\ pc = "exited" /\ ~running
    /\ ~engine.present /\ ~initialized
    /\ history = <<[command |-> Initialize, status |-> "Success"],
                   [command |-> Terminate, status |-> "Success"]>>
    /\ command = Shutdown

\* C25: the pipe is created and a client connected once, by start, before
\* any request is read; a header is read and a command handled only on the
\* pipe so connected; start does not run again, so no other connection is
\* accepted once the loop is running or has ended; and when the creation of
\* the pipe or the connection fails, no request is read and nothing is
\* handled or written before the process exits with status 1
C25_OneConnection ==
    [][ /\ pc = "new" => (pipe = "none" /\ req_no = 0 /\ written = <<>>)
        /\ (req_no' # req_no \/ pc = "handling")
            => (pipe = "connected" /\ pipe_handle = "PIPE")
        /\ (pipe' # pipe \/ pipe_handle' # pipe_handle) => pc = "new"
        /\ pc # "new" => pc' # "new"
        /\ (pc # "new" /\ pipe # "connected")
            => /\ pc = "failed" \/ (pc = "exited" /\ exit_code = 1)
               /\ pc' \in {"failed", "exited"}
               /\ req_no = 0 /\ written = <<>>
               /\ UNCHANGED <<req_no, written, last_read, last_write, calls,
                              engine, command>>
      ]_vars

\* C25: the process has ended after serving three requests on the one
\* connection start accepted
C25_Witness ==
    /\ pc = "exited" /\ exit_code = 0
    /\ pipe = "connected" /\ pipe_handle = "PIPE"
    /\ req_no = 3 /\ written = <<1, 2>>
    /\ ~running

\* the native function the adapter operation of a command calls on engine e
NeededFn(c, e) ==
    CASE c = Terminate -> "J2K_Terminate"
      [] c = TranslateMMNT -> "J2K_TranslateMMNT"
      [] c = TranslateMMNTW -> (IF "J2K_InitializeEx" \in e.fns
                                THEN "J2K_TranslateMMNTW"
                                ELSE "J2K_TranslateMMNT")
      [] c = ReloadUserDict -> "J2K_ReloadUserDict"
      [] c = SetProperty -> "J2K_SetProperty"
      [] OTHER -> "none"

\* the step handles, with every read and write accepted, a command whose
\* adapter operation needs a function the attached engine has not loaded
AbsentFunctionHandled ==
    /\ HandledWithIo /\ engine.present
    /\ NeededFn(command, engine) \notin engine.fns \cup {"none"}

\* no step makes a native call through a pointer that was not loaded: the
\* calls of a handler on the attached engine are calls of functions it has
\* loaded, and those of a successful Initialize are calls of functions the
\* new or the old engine has loaded
NoUnloadedCall ==
    /\ (pc = "handling" /\ command # Initialize /\ calls' # <<>>)
          => /\ engine.present
             /\ \A k \in 1..Len(calls') :
                    calls'[k].fn \in Exports => calls'[k].fn \in engine.fns
    /\ (pc = "handling" /\ command = Initialize /\ engine' # engine)
          => \A k \in 1..Len(calls') :
                 calls'[k].fn \in Exports
                     => \/ calls'[k].fn \in engine'.fns
                        \/ engine.present /\ calls'[k].fn \in engine.fns
    /\ AbsentFunctionHandled => calls' = <<>>
    /\ (pc = "handling" /\ command = Initialize /\ IoFine(last_read')
           /\ IoFine(last_write') /\ ~HasCall(calls', "J2K_InitializeEx", 0)
           /\ ~HasCall(calls', "J2K_InitializeEx", 1))
          => response'.status = "Error"

\* C26 as stated: no adapter operation calls a native function that was not
\* loaded; an operation whose function is absent returns an error with no
\* native call, and the response of the request then carries status Error
C26_AbsentFunctionIsError ==
    [][ /\ NoUnloadedCall
        /\ AbsentFunctionHandled => response'.status = "Error" ]_vars

\* C26 as amended: no adapter operation calls a native function that was not
\* loaded; an operation whose function is absent returns an error with no
\* native call; the response then carries status Error for Initialize, the
\* translate commands and SetProperty, and status Success for
\* ReloadUserDict, whose handler discards the error
C26_AbsentFunctionNotCalled ==
    [][ /\ NoUnloadedCall
        /\ AbsentFunctionHandled
              => /\ written' = Append(written, req_no)
                 /\ response'.status
                        = (IF command = ReloadUserDict THEN "Success"
                           ELSE "Error") ]_vars

\* C26: a ReloadUserDict sent to an engine that has not loaded
\* J2K_ReloadUserDict made no native call and was answered Success
C26_Witness ==
    /\ CanServe /\ command = ReloadUserDict
    /\ engine.present
    /\ "J2K_ReloadUserDict" \notin engine.fns
    /\ calls = <<>>
    /\ response = [type |-> "GenericResponse", status |-> "Success"]
    /\ written # <<>> /\ written[Len(written)] = req_no

\* the serve loop has ended: run has returned or main has exited after it
LoopEnded == pc \in {"returned", "exited"}

\* C27: with every engine call returning, once the client has sent Shutdown
\* or has closed the pipe the loop ends and the process exits, and once the
\* loop has ended no header is read, no command handled and nothing written
C27_LoopTerminates ==
    /\ (pc = "handling" /\ command = Shutdown) ~> (pc = "exited")
    /\ (pipe = "broken") ~> (pc = "exited")
    /\ [][ LoopEnded
             => /\ LoopEnded'
                /\ UNCHANGED <<req_no, header, command, last_read,
                               last_write, written, response, calls, engine,
                               initialized, running>> ]_vars

\* C27: the client closed the pipe while requests were being served with an
\* engine attached; the next write failed and the process has exited
C27_Witness ==
    /\ pc = "exited" /\ pipe = "broken"
    /\ error = "Io" /\ ~last_write.ok
    /\ last_write.T = "GenericResponse" /\ command = ReloadUserDict
    /\ engine.present /\ running
    /\ req_no < MaxRequests

IsEscapeAt(e, i) ==
    /\ i + 5 <= Len(e)
    /\ e[i] = PLUS
    /\ e[i + 1] \in {LOWER_X, UPPER_X}
    /\ \A j \in (i + 2)..(i + 5) : e[j] \in HexDigits

RECURSIVE PieceStart(_, _)
\* where in the output of hangul_encode the piece of the k-th character of
\* t begins: six places are written for a protected character, one otherwise
PieceStart(t, k) ==
    IF k = 1 THEN 1
    ELSE PieceStart(t, k - 1) + (IF NeedsEncodingChar(t[k - 1]) THEN 6 ELSE 1)

\* position i of the output is where the escape of a protected character
\* of t begins
EmittedAt(t, i) ==
    \E k \in 1..Len(t) : NeedsEncodingChar(t[k]) /\ PieceStart(t, k) = i

\* position i of the output is where a marker followed by four hexadecimal
\* digits, written out in t itself, has been copied
LiteralAt(t, i) ==
    \E k \in 1..Len(t) : IsEscapeAt(t, k) /\ PieceStart(t, k) = i

\* C29 as stated: for every input text, every marker followed by four
\* hexadecimal digits in the output of hangul_encode is an escape that
\* hangul_encode wrote for a protected character of the input
C29_EveryEscapeEmitted ==
    result.op = "encoded"
        => \A i \in 1..Len(result.encoded) :
               IsEscapeAt(result.encoded, i) => EmittedAt(text, i)

\* C29 as amended: every marker followed by four hexadecimal digits in the
\* output of hangul_encode is either an escape that hangul_encode wrote for
\* a protected character of the input or such a sequence of the input
\* copied as it stood; for an input that holds no marker followed by four
\* hexadecimal digits, each one is an escape hangul_encode wrote
C29_EscapeEmittedOrLiteral ==
    result.op = "encoded"
        => \A i \in 1..Len(result.encoded) :
               IsEscapeAt(result.encoded, i)
                   => /\ EmittedAt(text, i) \/ LiteralAt(text, i)
                      /\ ~HasEscapeLookalike(text) => EmittedAt(text, i)

\* C29: "+x\uAC000" encoded as "+x+xAC000": the only marker followed by four
\* hexadecimal digits is the escape written for the syllable
C29_Witness ==
    /\ result.op = "encoded"
    /\ text = <<PLUS, LOWER_X, HANGUL_GA, 48>>
    /\ IsEscapeAt(result.encoded, 3) /\ EmittedAt(text, 3)
    /\ \A i \in 1..Len(result.encoded) :
           IsEscapeAt(result.encoded, i) => i = 3

\* the header h with other values in payload_size and request_id
SameCommand(h) ==
    {[command |-> h.command, payload_size |-> f.payload_size,
      request_id |-> f.request_id] : f \in HeaderFields}

\* C30: what process_request does with a header it has read is what it
\* does with every header of the same command code, whatever payload_size
\* and request_id hold: the same handler is chosen or the same error
\* returned, and no session field or response changes on the way; the
\* handler then reads the request record of the command at its own size,
\* not at payload_size, writes the response record of the command, and
\* leaves the header as it was read
C30_HeaderFieldsIgnored ==
    [][ /\ (req_no' # req_no /\ IoFine(last_read'))
             => /\ \A h \in SameCommand(header') :
                     LET c == process_request_command(h)
                     IN  /\ (pc' = "handling") = c.ok
                         /\ c.ok => command' = c.command
                         /\ ~c.ok => (pc' = "returned" /\ error' = c.error)
                /\ UNCHANGED <<engine, initialized, running, written,
                               response, last_write, history>>
        /\ (pc = "handling" /\ pc' # "handling")
             => /\ header' = header
                /\ last_read' # last_read
                     => /\ last_read'.T = RequestTypeOf(command)
                        /\ IoFine(last_read')
                             = (last_read'.ok
                                  /\ last_read'.bytes
                                        = StatedSize(RequestTypeOf(command)))
                /\ last_write' # last_write
                     => last_write'.T = ResponseTypeOf(command)
                /\ written' # written
                     => /\ response'.type = ResponseTypeOf(command)
                        /\ written' = Append(written, req_no)
      ]_vars

\* C30: after a successful Initialize, a SetProperty whose header gave
\* payload_size 4 and request_id 7 had its request read at 8 bytes and was
\* answered Success
C30_Witness ==
    /\ CanServe /\ command = SetProperty
    /\ header = [command |-> 6, payload_size |-> 4, request_id |-> 7]
    /\ last_read = [T |-> "SetPropertyRequest", ok |-> TRUE, bytes |-> 8]
    /\ response = [type |-> "GenericResponse", status |-> "Success"]
    /\ written # <<>> /\ written[Len(written)] = req_no
    /\ history = <<[command |-> Initialize, status |-> "Success"],
                   [command |-> SetProperty, status |-> "Success"]>>

\* C31: in every reachable state initialized is true exactly when an engine
\* is attached, so a handler that tests the engine tests initialized
C31_InitializedIffEngine == initialized = engine.present

\* C31: an engine attached by one Initialize is still attached, and
\* initialized still true, after a second Initialize failed
C31_Witness ==
    /\ CanServe
    /\ engine.present /\ initialized
    /\ history = <<[command |-> Initialize, status |-> "Success"],
                   [command |-> Initialize, status |-> "Error"]>>

\* C32: whenever initialized is true the process-global native engine is
\* initialized: no J2K_Terminate has taken effect since the last accepted
\* J2K_InitializeEx while an engine is attached, and in particular a second
\* Initialize received with an engine attached does not terminate it
C32_NativeEngineKeptWhileAttached ==
    initialized => native_initialized

\* C33: handling one Terminate calls the native terminate function exactly
\* once when an engine is attached and not at all when none is
C33_TerminateCalledOnce ==
    [][ (pc = "handling" /\ command = Terminate)
          => CountCalls(calls', "J2K_Terminate")
                 = (IF engine.present THEN 1 ELSE 0) ]_vars

\* a marker followed by four hexadecimal digits that name a scalar value
\* stands at position i of t
IsValidEscapeAt(t, i) ==
    IsEscapeAt(t, i) /\ IsScalarValue(from_str_radix(SubSeq(t, i + 2, i + 5)))

RECURSIVE ReplaceEvery(_, _)
\* t from position i on with every valid escape replaced by the character
\* it names, left to right over occurrences that do not overlap
ReplaceEvery(t, i) ==
    IF i > Len(t) THEN <<>>
    ELSE IF IsValidEscapeAt(t, i)
    THEN <<from_str_radix(SubSeq(t, i + 2, i + 5))>> \o ReplaceEvery(t, i + 6)
    ELSE <<t[i]>> \o ReplaceEvery(t, i + 1)

\* C34: hangul_decode replaces every marker followed by four hexadecimal
\* digits that name a scalar value by that character, left to right over
\* occurrences that do not overlap, and leaves the rest as it is; a marker
\* whose escape fails does not keep a valid escape that begins among the
\* characters taken after it from being decoded
C34_EveryValidEscapeDecoded ==
    result.op = "decoded" => result.decoded = ReplaceEvery(text, 1)

\* a literal '+' that ends the text or stands directly before a protected
\* character
PlusBeforeEscape(t) ==
    \E k \in 1..Len(t) :
        /\ t[k] = PLUS
        /\ (k = Len(t) \/ t[k + 1] \in Protected)

\* the number of protected characters of a text
RECURSIVE CountProtected(_)
CountProtected(t) ==
    IF t = <<>> THEN 0
    ELSE (IF Head(t) \in Protected THEN 1 ELSE 0) + CountProtected(Tail(t))

\* C35: for every text in which no '+' is directly followed by 'x' or 'X',
\* a '+' before a protected character or at the end of the text included,
\* hangul_encode lengthens the text by five characters for each protected
\* character and hangul_decode of the encoded text gives the text back
C35_RoundTripWithLiteralPlus ==
    (/\ result.op = "roundtrip"
     /\ \A k \in 1..Len(text) :
            text[k] = PLUS =>
                (k = Len(text) \/ text[k + 1] \notin {LOWER_X, UPPER_X}))
        => /\ Len(result.encoded) = Len(text) + 5 * CountProtected(text)
           /\ hangul_decode(result.encoded) = text
           /\ result.decoded = text

\* C35: a round trip of a text whose '+' stands directly before a
\* protected character and whose last character is another '+'
C35_Witness ==
    /\ result.op = "roundtrip"
    /\ Len(text) = 3
    /\ text[1] = PLUS
    /\ text[2] \in Protected
    /\ text[3] = PLUS
    /\ PlusBeforeEscape(text)
    /\ result.decoded = text

\* the request buffers a translate command is sent
RequestTextsOf(c) == IF c = TranslateMMNT THEN RequestTextsA ELSE RequestTextsW

\* the text a translate handler hands over, in the units of the native
\* function fn: the buffer's prefix before its first zero unit (the whole
\* buffer when it has none), decoded, escaped on the extended path when it
\* holds a protected character, and encoded for the function
HandedText(c, fn, buf) ==
    LET prefix == SubSeq(buf, 1, text_len(buf))
        input == IF c = TranslateMMNT THEN SHIFT_JIS_decode(prefix)
                 ELSE from_utf16_lossy(prefix)
        encoded == IF c = TranslateMMNTW /\ needs_encoding(input)
                   THEN hangul_encode(input) ELSE input
    IN  IF fn = "J2K_TranslateMMNT" THEN SHIFT_JIS_encode(encoded)
        ELSE encode_utf16(encoded)

\* C36 as stated: for both translate commands, the text the engine reads is
\* the text made of the request buffer's prefix before its first zero unit,
\* or of the whole buffer when it holds none, and nothing that lies behind
\* that text in memory
C36_EngineReadsPrefixOnly ==
    [][ (HandledWithIo /\ command \in {TranslateMMNT, TranslateMMNTW}
            /\ engine.present)
        => \A k \in 1..Len(calls') :
               calls'[k].fn \in TranslateFns
                   => \E buf \in RequestTextsOf(command) :
                          /\ text_len(buf) <= BufCap
                          /\ calls'[k].arg
                                 = HandedText(command, calls'[k].fn, buf)
      ]_vars

\* C36, the extended path alone: the native function reads the handed text
\* and stops at the terminator translate_mmntw appends
C36_ExtendedReadsPrefixOnly ==
    [][ (HandledWithIo /\ command = TranslateMMNTW /\ engine.present)
        => \A k \in 1..Len(calls') :
               calls'[k].fn = "J2K_TranslateMMNTW"
                   => \E buf \in RequestTextsW :
                          calls'[k].arg
                              = HandedText(command, calls'[k].fn, buf)
      ]_vars

\* the native translate function default_translate selects on an engine
\* with the functions fns, and the other one
SelectedFn(fns) ==
    IF "J2K_InitializeEx" \in fns THEN "J2K_TranslateMMNTW"
    ELSE "J2K_TranslateMMNT"

OtherFn(fns) ==
    IF "J2K_InitializeEx" \in fns THEN "J2K_TranslateMMNT"
    ELSE "J2K_TranslateMMNTW"

\* C37: default_translate calls J2K_TranslateMMNTW when J2K_InitializeEx is
\* loaded and J2K_TranslateMMNT when it is not: the selected function once
\* when it is loaded, never when it is not, and the other one never; when
\* the selected function is not loaded or returns null the call fails and
\* gives no text
C37_SelectedFunctionOnly ==
    result.op = "translated" =>
        LET cs == result.gated.calls
            fn == SelectedFn(result.fns)
        IN  /\ CountCalls(cs, OtherFn(result.fns)) = 0
            /\ CountCalls(cs, fn) = (IF fn \in result.fns THEN 1 ELSE 0)
            /\ (fn \notin result.fns \/ HasCall(cs, fn, 0))
                   => /\ ~result.gated.ok
                      /\ result.gated.str = <<>>
                      /\ CountCalls(cs, "J2K_FreeMem") = 0

\* C37: a default_translate on an engine with J2K_InitializeEx and without
\* J2K_TranslateMMNTW, of a text that needs encoding: it failed and called
\* nothing, the loaded J2K_TranslateMMNT included
C37_Witness ==
    /\ result.op = "translated"
    /\ "J2K_InitializeEx" \in result.fns
    /\ "J2K_TranslateMMNTW" \notin result.fns
    /\ "J2K_TranslateMMNT" \in result.fns
    /\ needs_encoding(text)
    /\ ~result.gated.ok
    /\ result.gated.calls = <<>>

\* C37: a default_translate whose selected function returned null
C37_WitnessNull ==
    /\ result.op = "translated"
    /\ ~result.wide
    /\ HasCall(result.gated.calls, "J2K_TranslateMMNT", 0)
    /\ ~result.gated.ok


(***************************************************************************)
(* The shared-memory server (src/bin/shared_memory.rs)                     *)
(***************************************************************************)
\* what client.receive can return
ReceiveMessages == {"Message", "Exit", "MessageError", "Timeout"}

\* the texts a Message carries: empty, a letter, a Hangul syllable, '@'
ShmTexts == {<<>>, <<97>>, <<HANGUL_GA>>, <<AT>>}

\* main returning with status ret after the native calls cs
ShmReturned(old, received, sends, sent, send_ok, cs, ret) ==
    [pc |-> "returned", ez_trans |-> NoEngine, n |-> old.n,
     received |-> received, sends |-> sends, sent |-> sent,
     send_ok |-> send_ok, calls |-> cs, ret |-> ret]

\* a main that ends the process where a send fails, running no destructor
main_leave_Exiting(e, by_break, term_ret, drop_ret) ==
    IF by_break
    THEN [ok |-> terminate(e, term_ret).ok,
          calls |-> terminate(e, term_ret).calls \o EngineDrop(e, drop_ret)]
    ELSE [ok |-> FALSE, calls |-> <<>>]

\* what main does once the loop is left: after a break, ez_trans.terminate()?
\* and Ok(()); after a `?` in the loop, the return of the error; in both
\* cases ez_trans is dropped on the way out
main_leave(e, by_break, term_ret, drop_ret) ==
    IF by_break
    THEN [ok |-> terminate(e, term_ret).ok,
          calls |-> terminate(e, term_ret).calls \o EngineDrop(e, drop_ret)]
    ELSE [ok |-> FALSE, calls |-> EngineDrop(e, drop_ret)]

\* main up to the loop: EzTransEngine::new(..)?, initialize_ex(..)? and
\* Client::new(None)?
ShmStart ==
    /\ shm.pc = "start"
    /\ \E load \in LoadOutcomes, init_ret \in NativeRets,
          drop_ret \in NativeRets, client_ok \in BOOLEAN :
         LET new == EzTransEngine_new(load, drop_ret)
             init == initialize_ex(new.engine, init_ret)
         IN  shm' =
               IF ~new.ok
               THEN ShmReturned(shm, "none", 0, "none", TRUE, new.calls, "Err")
               ELSE IF ~init.ok \/ ~client_ok
               THEN ShmReturned(shm, "none", 0, "none", TRUE,
                                new.calls \o init.calls
                                    \o EngineDrop(new.engine, drop_ret),
                                "Err")
               ELSE [shm EXCEPT !.pc = "loop", !.ez_trans = new.engine,
                                !.calls = new.calls \o init.calls]
    /\ UNCHANGED <<text, result, server_vars>>

\* one pass of the loop that received `received`: the native calls cs of the
\* translation, one send of `sent` when sends = 1, and then the next pass,
\* the break, or the return of the send's error
ShmPass(received, cs, sends, sent, send_ok, breaks, term_ret, drop_ret) ==
    LET failed == sends = 1 /\ ~send_ok
        out == main_leave(shm.ez_trans, ~failed, term_ret, drop_ret)
    IN  shm' =
          IF failed \/ breaks
          THEN ShmReturned([shm EXCEPT !.n = shm.n + 1], received, sends,
                           sent, sends = 0 \/ send_ok, cs \o out.calls,
                           IF out.ok THEN "Ok" ELSE "Err")
          ELSE [shm EXCEPT !.n = shm.n + 1, !.received = received,
                           !.sends = sends, !.sent = sent,
                           !.send_ok = TRUE, !.calls = cs]

\* ReceiveMessage::Message: default_translate and the send of its result
ShmMessage ==
    /\ shm.pc = "loop" /\ shm.n < MaxRequests
    /\ \E recv_message \in ShmTexts, choice \in NativeChoicesW,
          send_ok \in BOOLEAN, term_ret \in NativeRets,
          drop_ret \in NativeRets :
         LET t == default_translate(shm.ez_trans, recv_message, choice, <<>>)
         IN  ShmPass("Message", t.calls, 1,
                     IF t.ok THEN "translation" ELSE "error", send_ok,
                     FALSE, term_ret, drop_ret)
    /\ UNCHANGED <<text, result, server_vars>>

\* ReceiveMessage::Exit
ShmExit ==
    /\ shm.pc = "loop"
    /\ \E term_ret \in NativeRets, drop_ret \in NativeRets :
         ShmPass("Exit", <<>>, 0, "none", TRUE, TRUE, term_ret, drop_ret)
    /\ UNCHANGED <<text, result, server_vars>>

\* ReceiveMessage::MessageError
ShmMessageError ==
    /\ shm.pc = "loop"
    /\ \E send_ok \in BOOLEAN, term_ret \in NativeRets,
          drop_ret \in NativeRets :
         ShmPass("MessageError", <<>>, 1, "error_2", send_ok, TRUE,
                 term_ret, drop_ret)
    /\ UNCHANGED <<text, result, server_vars>>

\* ReceiveMessage::Timeout
ShmTimeout ==
    /\ shm.pc = "loop" /\ shm.n < MaxRequests
    /\ \E send_ok \in BOOLEAN, term_ret \in NativeRets,
          drop_ret \in NativeRets :
         ShmPass("Timeout", <<>>, 1, "error_3", send_ok, FALSE, term_ret,
                 drop_ret)
    /\ UNCHANGED <<text, result, server_vars>>

NextShm == ShmStart \/ ShmMessage \/ ShmExit \/ ShmMessageError \/ ShmTimeout

SpecShm == Init /\ [][NextShm]_vars

\* C38: a pass of the loop that received a Message made one send, of the
\* translation or of the error text, one that received Timeout or
\* MessageError made one send of its error text, and one that received Exit
\* made none; the loop goes on exactly after a Message or a Timeout whose
\* send succeeded; and when main has left the loop, by a break or by the
\* error of a send, J2K_Terminate has been called on the way out
C38_OneSendPerMessage ==
    [][ shm.pc = "loop" =>
          /\ shm'.received \in ReceiveMessages
          /\ shm'.received = "Message"
                 => shm'.sends = 1 /\ shm'.sent \in {"translation", "error"}
          /\ shm'.received = "Timeout"
                 => shm'.sends = 1 /\ shm'.sent = "error_3"
          /\ shm'.received = "MessageError"
                 => shm'.sends = 1 /\ shm'.sent = "error_2"
          /\ shm'.received = "Exit" => shm'.sends = 0
          /\ shm'.pc = "loop"
                 <=> (shm'.received \in {"Message", "Timeout"}
                         /\ shm'.send_ok)
          /\ shm'.pc = "returned"
                 => /\ \/ shm'.received \in {"Exit", "MessageError"}
                       \/ ~shm'.send_ok
                    /\ CountCalls(shm'.calls, "J2K_Terminate") >= 1
      ]_shm

\* C38: main has returned from the third pass of the loop, which received
\* a Message, translated it and failed to send the translation; the drop
\* of the engine called J2K_Terminate
C38_Witness ==
    /\ shm.pc = "returned"
    /\ shm.n = 3
    /\ shm.received = "Message"
    /\ shm.sends = 1
    /\ shm.sent = "translation"
    /\ ~shm.send_ok
    /\ shm.ret = "Err"
    /\ CountCalls(shm.calls, "J2K_TranslateMMNTW") = 1
    /\ CountCalls(shm.calls, "J2K_Terminate") = 1

====
